---- MODULE Spec2Model ----
(***************************************************************************)
(* Model of the open-flash/stream codec: WritableStream (lib/writable.ts)  *)
(* and ReadableStream (lib/readable.ts).                                   *)
(*                                                                         *)
(* A stream object is a record holding the fields of the class.  Every     *)
(* method is an operator from the object (and the arguments) to the        *)
(* object after the call, together with the returned value and the         *)
(* exception thrown, if any.  The actions of the specifications call one   *)
(* public method each.                                                     *)
(***************************************************************************)
EXTENDS Integers, Sequences, FiniteSets, TLC

(***************************************************************************)
(* The record of the last call made on a stream: the method (op), its      *)
(* numeric argument (n), the exception thrown (err, "none" when the call   *)
(* returned), the value written (value), the object before the call (pre), *)
(* the value returned (ret), and for a writer the result of the previous   *)
(* getBytes() (lastBytes) and whether something was written since (dirty). *)
(***************************************************************************)
\* No getBytes() result yet.
NoBytes == <<0 - 1>>

\* Nothing was called yet: the object is freshly constructed.
NoCall ==
  [op |-> "new", n |-> 0, err |-> "none", value |-> <<>>, pre |-> <<>>, ret |-> <<>>,
   lastBytes |-> NoBytes, dirty |-> FALSE]

(***************************************************************************)
(* JavaScript numbers.  The codec handles integers up to 2^32, which do    *)
(* not fit the model checker's integers, so an integer-valued double x is  *)
(* the pair <<x \div 2^16, x % 2^16>> ("wide" number).  Small quantities   *)
(* (positions, bit counts, bytes) are plain integers.                      *)
(***************************************************************************)
Limb == 2 ^ 16

Norm(h, l) == <<h + (l \div Limb), l % Limb>>

\* The wide number of the small integer i.
Wide(i) == Norm(0, i)

\* The small integer of a wide number that fits one.
Small(a) == a[1] * Limb + a[2]

WAdd(a, b) == Norm(a[1] + b[1], a[2] + b[2])

WNeg(a) == Norm(0 - a[1], 0 - a[2])

WLess(a, b) == a[1] < b[1] \/ (a[1] = b[1] /\ a[2] < b[2])

RECURSIVE WMulPow2(_, _)
\* a * 2^k, exact (doubles are exact below 2^53).
WMulPow2(a, k) ==
  IF k = 0 THEN a
  ELSE IF k >= 16 THEN WMulPow2(<<a[1] * Limb + a[2], 0>>, k - 16)
  ELSE IF k > 8 THEN WMulPow2(Norm(a[1] * 256, a[2] * 256), k - 8)
  ELSE Norm(a[1] * (2 ^ k), a[2] * (2 ^ k))

\* floor(a / 2^k)
WDivPow2(a, k) ==
  IF k < 16
  THEN <<a[1] \div (2 ^ k), (a[1] % (2 ^ k)) * (2 ^ (16 - k)) + (a[2] \div (2 ^ k))>>
  ELSE Norm(0, a[1] \div (2 ^ (k - 16)))

\* Math.pow(2, k) and 2 ** k, k >= 0.
Pow2(k) == WMulPow2(Wide(1), k)

\* ECMAScript ToUint32 and ToInt32 of an integer-valued number.
ToUint32(a) == <<a[1] % Limb, a[2]>>

ToInt32(a) ==
  LET u == ToUint32(a)
  IN IF u[1] >= Limb \div 2 THEN <<u[1] - Limb, u[2]>> ELSE u

RECURSIVE BitsAnd(_, _)
\* Bitwise and of two naturals.
BitsAnd(x, y) ==
  IF x = 0 \/ y = 0 THEN 0
  ELSE (x % 2) * (y % 2) + 2 * BitsAnd(x \div 2, y \div 2)

RECURSIVE BitsOr(_, _)
\* Bitwise or of two naturals.
BitsOr(x, y) ==
  IF x = 0 THEN y
  ELSE IF y = 0 THEN x
  ELSE (IF x % 2 = 1 \/ y % 2 = 1 THEN 1 ELSE 0) + 2 * BitsOr(x \div 2, y \div 2)

\* JavaScript a & b, a | b, a << k, a >>> k on wide numbers.
JsAnd(a, b) ==
  LET x == ToUint32(a)
      y == ToUint32(b)
  IN ToInt32(<<BitsAnd(x[1], y[1]), BitsAnd(x[2], y[2])>>)

JsOr(a, b) ==
  LET x == ToUint32(a)
      y == ToUint32(b)
  IN ToInt32(<<BitsOr(x[1], y[1]), BitsOr(x[2], y[2])>>)

\* The low 32 bits of u * 2^j, for u in 0 .. 2^32 - 1 and j in 0 .. 31.
ShlUint32(u, j) ==
  IF j < 16
  THEN <<((u[1] % (2 ^ (16 - j))) * (2 ^ j) + ((u[2] * (2 ^ j)) \div Limb)) % Limb,
         (u[2] * (2 ^ j)) % Limb>>
  ELSE <<(u[2] % (2 ^ (32 - j))) * (2 ^ (j - 16)), 0>>

JsShl(a, k) == ToInt32(ShlUint32(ToUint32(a), k % 32))

JsUShr(a, k) == WDivPow2(ToUint32(a), k % 32)

\* Math.min
Min(a, b) == IF a <= b THEN a ELSE b

\* The same operators on small non-negative operands (bytes, masks, bit counts).
And8(x, y) == Small(JsAnd(Wide(x), Wide(y)))

Or8(x, y) == Small(JsOr(Wide(x), Wide(y)))

Shl8(x, k) == Small(JsShl(Wide(x), k))

RECURSIVE Flatten(_)
\* concatBytes of lib/concat-bytes.ts: the chunks joined in order into one
\* new array.
Flatten(chunks) ==
  IF chunks = <<>> THEN <<>> ELSE Head(chunks) \o Flatten(Tail(chunks))

concatBytes(chunks) == Flatten(chunks)

(***************************************************************************)
(* WritableStream (lib/writable.ts).  A writer is the record of its four   *)
(* fields; #chunks is a sequence of byte sequences.                        *)
(***************************************************************************)
NewWritableStream ==
  [bytePos |-> 0, bitPos |-> 0, bitsBuffer |-> 0, chunks |-> <<>>]

\* The outcome of a call: the object afterwards, the value returned and the
\* exception thrown ("none" when the call returns).
Returns(s, ret) == [s |-> s, ret |-> ret, err |-> "none"]

Throws(s, err) == [s |-> s, ret |-> <<>>, err |-> err]

\* Array.push on #chunks
Push(s, chunk) == [s EXCEPT !.chunks = Append(@, chunk)]

writeUint8(s, value) ==
  [Push(s, <<And8(value, 255)>>) EXCEPT !.bytePos = @ + 1]

\* Mutant of align: the accumulator is not cleared.
WritableStream_align_KeepBits(s) ==
  IF s.bitPos # 0
  THEN [writeUint8(s, s.bitsBuffer) EXCEPT !.bitPos = 0]
  ELSE s

WritableStream_align(s) ==
  IF s.bitPos # 0
  THEN [writeUint8(s, s.bitsBuffer) EXCEPT !.bitPos = 0, !.bitsBuffer = 0]
  ELSE s

WritableStream_asBitStream(s) == s

WritableStream_asByteStream(s) == WritableStream_align(s)

writeBytes(s, value) == [Push(s, value) EXCEPT !.bytePos = @ + Len(value)]

\* Mutant of writeZeros: the cursor moves but no chunk is stored.
writeZeros_NoChunk(s, size) == [s EXCEPT !.bytePos = @ + size]

writeZeros(s, size) ==
  [Push(s, [i \in 1..size |-> 0]) EXCEPT !.bytePos = @ + size]

\* Mutant of writeZerosBits: the early return also taken when the byte fills.
writeZerosBits_LateFlush(s, size) ==
  IF s.bitPos + size <= 8
  THEN [s EXCEPT !.bitPos = @ + size]
  ELSE LET s1 == [writeUint8(s, s.bitsBuffer) EXCEPT !.bitsBuffer = 0]
           size1 == size - (8 - s1.bitPos)
           bitPos == size1 % 8
       IN [writeZeros(s1, (size1 - bitPos) \div 8) EXCEPT !.bitPos = bitPos]

\* Mutant of writeZerosBits: the accumulator is not cleared after the flush.
writeZerosBits_KeepBits(s, size) ==
  IF s.bitPos + size < 8
  THEN [s EXCEPT !.bitPos = @ + size]
  ELSE LET s1 == writeUint8(s, s.bitsBuffer)
           size1 == size - (8 - s1.bitPos)
           bitPos == size1 % 8
       IN [writeZeros(s1, (size1 - bitPos) \div 8) EXCEPT !.bitPos = bitPos]

writeZerosBits(s, size) ==
  IF s.bitPos + size < 8
  THEN [s EXCEPT !.bitPos = @ + size]
  ELSE LET s1 == [writeUint8(s, s.bitsBuffer) EXCEPT !.bitsBuffer = 0]
           size1 == size - (8 - s1.bitPos)
           bitPos == size1 % 8
       IN [writeZeros(s1, (size1 - bitPos) \div 8) EXCEPT !.bitPos = bitPos]

\* Mutant of getBytes: the chunks are dropped instead of replaced.
getBytes_Forget(s) ==
  LET bytes == concatBytes(s.chunks)
  IN Returns([s EXCEPT !.chunks = <<>>], bytes)

\* Mutant of getBytes: the pending bits are flushed first.
getBytes_Flush(s) ==
  LET s1 == WritableStream_align(s)
      bytes == concatBytes(s1.chunks)
  IN Returns([s1 EXCEPT !.chunks = <<bytes>>], bytes)

getBytes(s) ==
  LET bytes == concatBytes(s.chunks)
  IN Returns([s EXCEPT !.chunks = <<bytes>>], bytes)

RECURSIVE writeUintBitsLoop_LowBits(_, _, _)
\* Mutant of writeUintBitsLoop: the chunk is stored in the low bits.
writeUintBitsLoop_LowBits(s, bits, value) ==
  IF bits > 0
  THEN LET availableBits == 8 - s.bitPos
           consumedBits == Min(availableBits, bits)
           chunk == Small(JsAnd(JsUShr(value, bits - consumedBits),
                                Wide(Shl8(1, consumedBits) - 1)))
           s1 == [s EXCEPT
                    !.bitsBuffer = Or8(@, chunk),
                    !.bitPos = @ + consumedBits]
           s2 == IF s1.bitPos = 8
                 THEN [writeUint8(s1, s1.bitsBuffer) EXCEPT
                         !.bitsBuffer = 0, !.bitPos = 0]
                 ELSE s1
       IN writeUintBitsLoop_LowBits(s2, bits - consumedBits, value)
  ELSE s

RECURSIVE writeUintBitsLoop(_, _, _)
\* The while loop of writeUintBits; value is a wide number.
writeUintBitsLoop(s, bits, value) ==
  IF bits > 0
  THEN LET availableBits == 8 - s.bitPos
           consumedBits == Min(availableBits, bits)
           chunk == Small(JsAnd(JsUShr(value, bits - consumedBits),
                                Wide(Shl8(1, consumedBits) - 1)))
           s1 == [s EXCEPT
                    !.bitsBuffer = Or8(@, Shl8(chunk, availableBits - consumedBits)),
                    !.bitPos = @ + consumedBits]
           s2 == IF s1.bitPos = 8
                 THEN [writeUint8(s1, s1.bitsBuffer) EXCEPT
                         !.bitsBuffer = 0, !.bitPos = 0]
                 ELSE s1
       IN writeUintBitsLoop(s2, bits - consumedBits, value)
  ELSE s

\* Mutant of writeUintBits: 32 bits are rejected too.
writeUintBits_Limit31(s, bits, value) ==
  IF bits >= 32
  THEN Throws(s, "BitOverflow")
  ELSE Returns(writeUintBitsLoop(s, bits, value), <<>>)

writeUintBits(s, bits, value) ==
  IF bits > 32
  THEN Throws(s, "BitOverflow")
  ELSE Returns(writeUintBitsLoop(s, bits, value), <<>>)

writeSintBits(s, bits, value) ==
  IF WLess(value, Wide(0))
  THEN writeUintBits(s, bits, WAdd(Pow2(bits), value))
  ELSE writeUintBits(s, bits, value)

writeBoolBits(s, value) == writeUintBits(s, 1, IF value THEN Wide(1) ELSE Wide(0))

writeSint16Bits(s, n, value) == writeSintBits(s, n, value)

writeSint32Bits(s, n, value) == writeSintBits(s, n, value)

writeUint16Bits(s, n, value) == writeUintBits(s, n, value)

writeUint32Bits(s, n, value) == writeUintBits(s, n, value)

\* value < 0 ? (1 << w) + value : value, for the signed byte-aligned writers
Unsign(value, w) ==
  IF WLess(value, Wide(0)) THEN WAdd(JsShl(Wide(1), w), value) ELSE value

\* (value >>> k) & 0xff
ByteOf(value, k) == Small(JsAnd(JsUShr(value, k), Wide(255)))

writeSint8(s, value) == writeUint8(s, Small(Unsign(value, 8)))

writeSint32LE(s, value) ==
  [Push(s, <<ByteOf(value, 0), ByteOf(value, 8), ByteOf(value, 16), ByteOf(value, 24)>>)
     EXCEPT !.bytePos = @ + 4]

writeUint16BE(s, value) ==
  [Push(s, <<ByteOf(value, 8), ByteOf(value, 0)>>) EXCEPT !.bytePos = @ + 2]

writeUint16LE(s, value) ==
  [Push(s, <<ByteOf(value, 0), ByteOf(value, 8)>>) EXCEPT !.bytePos = @ + 2]

writeSint16LE(s, value) == writeUint16LE(s, Unsign(value, 16))

writeUint32BE(s, value) ==
  [Push(s, <<ByteOf(value, 24), ByteOf(value, 16), ByteOf(value, 8), ByteOf(value, 0)>>)
     EXCEPT !.bytePos = @ + 4]

writeUint32LE(s, value) == writeSint32LE(s, JsOr(value, Wide(0)))

\* value % 0x80 and (value - nextByte) / 0x80 on a non-negative number
Mod128(value) == Small(WAdd(value, WNeg(WMulPow2(WDivPow2(value, 7), 7))))

RECURSIVE Leb128Loop_EarlyFlag(_, _)
\* Mutant of Leb128Loop: the continuation bit is decided before the division.
Leb128Loop_EarlyFlag(value, chunk) ==
  IF value # Wide(0) \/ Len(chunk) = 0
  THEN LET nextByte == Mod128(value)
           value1 == WDivPow2(WAdd(value, WNeg(Wide(nextByte))), 7)
           nextByte1 == IF value # Wide(0) THEN Or8(nextByte, 128) ELSE nextByte
       IN Leb128Loop_EarlyFlag(value1, Append(chunk, nextByte1))
  ELSE chunk

RECURSIVE Leb128Loop(_, _)
\* The while loop of writeUint32Leb128: the chunk it builds.
Leb128Loop(value, chunk) ==
  IF value # Wide(0) \/ Len(chunk) = 0
  THEN LET nextByte == Mod128(value)
           value1 == WDivPow2(WAdd(value, WNeg(Wide(nextByte))), 7)
           nextByte1 == IF value1 # Wide(0) THEN Or8(nextByte, 128) ELSE nextByte
       IN Leb128Loop(value1, Append(chunk, nextByte1))
  ELSE chunk

writeUint32Leb128(s, value) ==
  LET chunk == Leb128Loop(value, <<>>)
  IN [Push(s, chunk) EXCEPT !.bytePos = @ + Len(chunk)]

\* UTF8_ENCODER.encode(value): a lone surrogate is encoded as U+FFFD.
RECURSIVE Utf8Encode(_)
Utf8Encode(value) ==
  IF value = <<>> THEN <<>>
  ELSE LET c == Head(value)
           cp == IF c >= 55296 /\ c <= 57343 THEN 65533 ELSE c
           unit ==
             IF cp < 128 THEN <<cp>>
             ELSE IF cp < 2048 THEN <<192 + (cp \div 64), 128 + (cp % 64)>>
             ELSE IF cp < 65536
               THEN <<224 + (cp \div 4096), 128 + ((cp \div 64) % 64),
                      128 + (cp % 64)>>
             ELSE <<240 + (cp \div 262144), 128 + ((cp \div 4096) % 64),
                    128 + ((cp \div 64) % 64), 128 + (cp % 64)>>
       IN unit \o Utf8Encode(Tail(value))

writeUtf8(s, value) == writeBytes(s, Utf8Encode(value))

writeNulUtf8(s, value) == writeUint8(writeBytes(s, Utf8Encode(value)), 0)

\* write(value): value is another writer; its bytes are appended.
write(s, value) == writeBytes(s, getBytes(value).ret)

(***************************************************************************)
(* ReadableStream (lib/readable.ts).  A reader is the record of its        *)
(* fields; #view is a DataView over the same bytes as #bytes.              *)
(***************************************************************************)
NewReadableStream(bytes, byteOffset, bitOffset) ==
  [bytes |-> bytes, bytePos |-> 0, bitPos |-> bitOffset, byteEnd |-> Len(bytes)]

\* The value of an index expression past the end of a typed array.
Undefined == 0 - 1

\* this.#bytes[i]
At(bytes, i) == IF i >= 0 /\ i < Len(bytes) THEN bytes[i + 1] ELSE Undefined

\* The operand conversion of the bit operators: undefined converts to 0.
Operand(x) == IF x = Undefined THEN Wide(0) ELSE Wide(x)

\* Uint8Array.subarray(begin, end): both ends are clamped to the array.
Subarray(bytes, begin, end) ==
  LET b == Min(begin, Len(bytes))
      e == Min(end, Len(bytes))
  IN IF b < e THEN SubSeq(bytes, b + 1, e) ELSE <<>>

\* DataView accessors throw a RangeError unless pos .. pos + width - 1 lie
\* inside the view.
InView(s, pos, width) == pos >= 0 /\ pos + width <= Len(s.bytes)

ReadableStream_asBitStream(s) == Returns(s, s)

ReadableStream_align(s) ==
  IF s.bitPos # 0 THEN [s EXCEPT !.bitPos = 0, !.bytePos = @ + 1] ELSE s

ReadableStream_asByteStream(s) ==
  LET s1 == ReadableStream_align(s) IN Returns(s1, s1)

tailBytes(s) ==
  Returns([s EXCEPT !.bytePos = s.byteEnd, !.bitPos = 0],
          Subarray(s.bytes, s.bytePos, Len(s.bytes)))

\* new ReadableStream(this.tailBytes(), 0, this.bitPos): the arguments are
\* evaluated in order, so bitPos is read after tailBytes() has run.
tail(s) ==
  LET t == tailBytes(s)
  IN Returns(t.s, NewReadableStream(t.ret, 0, t.s.bitPos))

available(s) == s.byteEnd - s.bytePos

takeBytes(s, length) ==
  Returns([s EXCEPT !.bytePos = @ + length, !.bitPos = 0],
          Subarray(s.bytes, s.bytePos, s.bytePos + length))

take(s, length) ==
  LET t == takeBytes(s, length)
  IN Returns(t.s, NewReadableStream(t.ret, 0, 0))

\* getUint8(this.bytePos++): the increment happens before the access.
readUint8(s) ==
  LET s1 == [s EXCEPT !.bytePos = @ + 1]
  IN IF InView(s, s.bytePos, 1)
     THEN Returns(s1, s.bytes[s.bytePos + 1])
     ELSE Throws(s1, "RangeError")

peekUint8(s) ==
  IF InView(s, s.bytePos, 1)
  THEN Returns(s, s.bytes[s.bytePos + 1])
  ELSE Throws(s, "RangeError")

skip(s, size) == [s EXCEPT !.bytePos = @ + size]

\* Mutant of Leb128Term: the fifth byte is shifted like the others.
Leb128Term_Shift(nextByte, i) ==
  JsShl(JsAnd(Operand(nextByte), Wide(127)), 7 * i)

\* What iteration i of readUint32Leb128 adds to the result for nextByte.
Leb128Term(nextByte, i) ==
  IF i < 4
  THEN JsShl(JsAnd(Operand(nextByte), Wide(127)), 7 * i)
  ELSE WMulPow2(JsAnd(Operand(nextByte), Wide(15)), 28)

RECURSIVE readUint32Leb128Loop_SixBytes(_, _, _)
\* Mutant of readUint32Leb128Loop: a sixth byte is read.
readUint32Leb128Loop_SixBytes(s, i, result) ==
  IF i < 6
  THEN LET nextByte == At(s.bytes, s.bytePos)
           s1 == [s EXCEPT !.bytePos = @ + 1]
           result1 == WAdd(result, Leb128Term(nextByte, i))
       IN IF JsAnd(Operand(nextByte), JsShl(Wide(1), 7)) = Wide(0)
          THEN Returns(s1, result1)
          ELSE readUint32Leb128Loop_SixBytes(s1, i + 1, result1)
  ELSE Returns(s, result)

RECURSIVE readUint32Leb128Loop(_, _, _)
\* The for loop of readUint32Leb128 from iteration i on.
readUint32Leb128Loop(s, i, result) ==
  IF i < 5
  THEN LET nextByte == At(s.bytes, s.bytePos)
           s1 == [s EXCEPT !.bytePos = @ + 1]
           result1 == WAdd(result, Leb128Term(nextByte, i))
       IN IF JsAnd(Operand(nextByte), JsShl(Wide(1), 7)) = Wide(0)
          THEN Returns(s1, result1)
          ELSE readUint32Leb128Loop(s1, i + 1, result1)
  ELSE Returns(s, result)

readUint32Leb128(s) == readUint32Leb128Loop(s, 0, Wide(0))

\* Mutant of Accumulate: the bits read so far are not shifted.
Accumulate_NoShift(result, shift, cur) == WAdd(result, cur)

\* result * shift + cur, shift a small power of two
Accumulate(result, shift, cur) ==
  WAdd(Norm(result[1] * shift, result[2] * shift), cur)

RECURSIVE readUintBitsLoop(_, _, _)
\* The while loop of readUintBits.
readUintBitsLoop(s, n, result) ==
  IF n > 0
  THEN IF s.bitPos + n < 8
       THEN LET endBitPos == s.bitPos + n
                shift == Shl8(1, endBitPos - s.bitPos)
                cur == JsAnd(JsUShr(Operand(At(s.bytes, s.bytePos)), 8 - endBitPos),
                             Wide(shift - 1))
            IN readUintBitsLoop([s EXCEPT !.bitPos = endBitPos], 0,
                                Accumulate(result, shift, cur))
       ELSE LET shift == Shl8(1, 8 - s.bitPos)
                cur == JsAnd(Operand(At(s.bytes, s.bytePos)), Wide(shift - 1))
            IN readUintBitsLoop([s EXCEPT !.bitPos = 0, !.bytePos = @ + 1],
                                n - (8 - s.bitPos),
                                Accumulate(result, shift, cur))
  ELSE Returns(s, result)

\* Mutant of readUintBits: the cursor is moved to the next byte boundary.
readUintBits_Align(s, n) ==
  IF n > 32
  THEN Throws(s, "BitOverflow")
  ELSE LET r == readUintBitsLoop(s, n, Wide(0))
       IN Returns(ReadableStream_align(r.s), r.ret)

\* Mutant of readUintBits: the bit count is tested after the bits are read.
readUintBits_LateCheck(s, n) ==
  LET r == readUintBitsLoop(s, n, Wide(0))
  IN IF n > 32 THEN Throws(r.s, "BitOverflow") ELSE r

readUintBits(s, n) ==
  IF n > 32
  THEN Throws(s, "BitOverflow")
  ELSE readUintBitsLoop(s, n, Wide(0))

\* Mutant of readSintBits: the sign bit is compared with 2^n.
readSintBits_NoSign(s, n) ==
  IF n = 0
  THEN Returns(s, Wide(0))
  ELSE LET r == readUintBits(s, n)
       IN IF r.err # "none" THEN r
          ELSE IF WLess(r.ret, Pow2(n))
               THEN r
               ELSE Returns(r.s, WAdd(WNeg(Pow2(n)), r.ret))

\* Mutant of readSintBits: 2^(n-1) is subtracted instead of 2^n.
readSintBits_HalfOffset(s, n) ==
  IF n = 0
  THEN Returns(s, Wide(0))
  ELSE LET r == readUintBits(s, n)
       IN IF r.err # "none" THEN r
          ELSE IF WLess(r.ret, Pow2(n - 1))
               THEN r
               ELSE Returns(r.s, WAdd(WNeg(Pow2(n - 1)), r.ret))

readSintBits(s, n) ==
  IF n = 0
  THEN Returns(s, Wide(0))
  ELSE LET r == readUintBits(s, n)
       IN IF r.err # "none" THEN r
          ELSE IF WLess(r.ret, Pow2(n - 1))
               THEN r
               ELSE Returns(r.s, WAdd(WNeg(Pow2(n)), r.ret))

skipBits(s, n) ==
  LET r == readUintBits(s, n)
  IN IF r.err # "none" THEN r ELSE Returns(r.s, <<>>)

readBoolBits(s) ==
  LET r == readUintBits(s, 1) IN Returns(r.s, WLess(Wide(0), r.ret))

readSint16Bits(s, n) == readSintBits(s, n)

readSint32Bits(s, n) == readSintBits(s, n)

readUint16Bits(s, n) == readUintBits(s, n)

readUint32Bits(s, n) == readUintBits(s, n)

\* DataView.getUint16 / getUint32 / getInt8 / getInt16 / getInt32 at pos
\* (defined when InView holds); the results of the 16 and 32 bit accessors
\* are wide numbers.
GetUint16(s, pos, littleEndian) ==
  LET b0 == s.bytes[pos + 1]
      b1 == s.bytes[pos + 2]
  IN IF littleEndian THEN Wide(b1 * 256 + b0) ELSE Wide(b0 * 256 + b1)

GetUint32(s, pos, littleEndian) ==
  LET b0 == s.bytes[pos + 1]
      b1 == s.bytes[pos + 2]
      b2 == s.bytes[pos + 3]
      b3 == s.bytes[pos + 4]
  IN IF littleEndian
     THEN <<b3 * 256 + b2, b1 * 256 + b0>>
     ELSE <<b0 * 256 + b1, b2 * 256 + b3>>

GetInt8(s, pos) ==
  LET b == s.bytes[pos + 1] IN IF b >= 128 THEN b - 256 ELSE b

GetInt16(s, pos, littleEndian) ==
  LET u == GetUint16(s, pos, littleEndian)
  IN IF WLess(u, Pow2(15)) THEN u ELSE WAdd(u, WNeg(Pow2(16)))

GetInt32(s, pos, littleEndian) == ToInt32(GetUint32(s, pos, littleEndian))

\* const result = this.#view.getX(this.bytePos, ...); this.bytePos += width
FixedRead(s, width, value) ==
  IF InView(s, s.bytePos, width)
  THEN Returns([s EXCEPT !.bytePos = @ + width], value)
  ELSE Throws(s, "RangeError")

readSint8(s) ==
  LET s1 == [s EXCEPT !.bytePos = @ + 1]
  IN IF InView(s, s.bytePos, 1)
     THEN Returns(s1, GetInt8(s, s.bytePos))
     ELSE Throws(s1, "RangeError")

readSint16LE(s) == FixedRead(s, 2, GetInt16(s, s.bytePos, TRUE))

readSint32LE(s) == FixedRead(s, 4, GetInt32(s, s.bytePos, TRUE))

\* Mutant of readUint16BE: the bytes are taken in little-endian order.
readUint16BE_Little(s) == FixedRead(s, 2, GetUint16(s, s.bytePos, TRUE))

readUint16BE(s) == FixedRead(s, 2, GetUint16(s, s.bytePos, FALSE))

readUint16LE(s) == FixedRead(s, 2, GetUint16(s, s.bytePos, TRUE))

readUint32BE(s) == FixedRead(s, 4, GetUint32(s, s.bytePos, FALSE))

readUint32LE(s) == FixedRead(s, 4, GetUint32(s, s.bytePos, TRUE))

(***************************************************************************)
(* Half-precision numbers.  A Float16 value is a double that is NaN, an    *)
(* infinity or a multiple of 2^-24 below 2^16, with a sign (-0 is a        *)
(* value): the record [kind, neg, q] with kind "nan", "inf" or "finite"    *)
(* and q the wide number |value| * 2^24.  All the products, quotients and  *)
(* differences below are exact in double precision.                        *)
(***************************************************************************)
Float(kind, neg, q) == [kind |-> kind, neg |-> neg, q |-> q]

NaN == Float("nan", FALSE, Wide(0))

reinterpretUint16AsFloat16(u16) ==
  LET neg == JsAnd(Wide(u16), JsShl(Wide(1), 15)) # Wide(0)
      exponent == Small(JsUShr(JsAnd(Wide(u16), Wide(31744)), 10))
      fraction == Small(JsAnd(Wide(u16), Wide(1023)))
  IN IF exponent = 0
     THEN Float("finite", neg, Wide(fraction))
     ELSE IF exponent = 31
     THEN IF fraction = 0 THEN Float("inf", neg, Wide(0)) ELSE NaN
     ELSE Float("finite", neg, WMulPow2(Wide(1024 + fraction), exponent - 1))

MAX_EXPONENT == 31

RECURSIVE ExponentLoop(_, _)
\* The while loop of reinterpretFloat16AsUint16: the exponent it ends with.
ExponentLoop(value, exponent) ==
  IF /\ exponent < MAX_EXPONENT
     /\ (value.kind = "inf" \/ ~WLess(value.q, Pow2(exponent + 10)))
  THEN ExponentLoop(value, exponent + 1)
  ELSE exponent

\* Mutant of reinterpretFloat16AsUint16: the sign of -0 is lost (value < 0 only).
reinterpretFloat16AsUint16_NoNegZero(value) ==
  IF value.kind = "nan" THEN 65535
  ELSE LET signBit == IF value.neg /\ (value.kind = "inf" \/ value.q # Wide(0))
                      THEN Wide(1) ELSE Wide(0)
       IN IF value.kind = "finite" /\ WLess(value.q, Pow2(10))
          THEN Small(JsOr(JsShl(signBit, 15), JsAnd(value.q, Wide(1023))))
          ELSE LET exponent == ExponentLoop(value, 1)
               IN IF exponent = MAX_EXPONENT
                  THEN Small(JsOr(JsShl(signBit, 15), JsShl(Wide(MAX_EXPONENT), 10)))
                  ELSE LET fraction ==
                             WDivPow2(WAdd(value.q, WNeg(Pow2(exponent + 9))),
                                      exponent - 1)
                       IN Small(JsOr(JsOr(JsShl(signBit, 15),
                                          JsShl(Wide(exponent), 10)),
                                     JsAnd(fraction, Wide(1023))))

reinterpretFloat16AsUint16(value) ==
  IF value.kind = "nan" THEN 65535
  ELSE LET signBit == IF value.neg THEN Wide(1) ELSE Wide(0)
       IN IF value.kind = "finite" /\ WLess(value.q, Pow2(10))
          THEN Small(JsOr(JsShl(signBit, 15), JsAnd(value.q, Wide(1023))))
          ELSE LET exponent == ExponentLoop(value, 1)
               IN IF exponent = MAX_EXPONENT
                  THEN Small(JsOr(JsShl(signBit, 15), JsShl(Wide(MAX_EXPONENT), 10)))
                  ELSE LET fraction ==
                             WDivPow2(WAdd(value.q, WNeg(Pow2(exponent + 9))),
                                      exponent - 1)
                       IN Small(JsOr(JsOr(JsShl(signBit, 15),
                                          JsShl(Wide(exponent), 10)),
                                     JsAnd(fraction, Wide(1023))))

(***************************************************************************)
(* Single and double precision numbers.  A Float32 or Float64 value that   *)
(* is not NaN is the record of its IEEE 754 bits, most significant byte    *)
(* first (4 or 8 bytes); NaN is the one value of JavaScript.  DataView     *)
(* writes NaN as the quiet NaN 7f c0 00 00 / 7f f8 00 .. 00.               *)
(***************************************************************************)
Double(bits) == [kind |-> "float", bits |-> bits]

Reverse(bytes) == [i \in 1..Len(bytes) |-> bytes[Len(bytes) + 1 - i]]

\* The bits of a NaN: exponent all ones, fraction not zero.
IsNaNBits(bits) ==
  IF Len(bits) = 4
  THEN /\ bits[1] % 128 = 127
       /\ bits[2] >= 128
       /\ (bits[2] # 128 \/ bits[3] # 0 \/ bits[4] # 0)
  ELSE /\ bits[1] % 128 = 127
       /\ bits[2] >= 240
       /\ (bits[2] # 240 \/ \E i \in 3..8 : bits[i] # 0)

\* DataView.getFloat32 / getFloat64 over the bytes of the number
GetFloat(bytes, littleEndian) ==
  LET bits == IF littleEndian THEN Reverse(bytes) ELSE bytes
  IN IF IsNaNBits(bits) THEN NaN ELSE Double(bits)

\* The bytes DataView.setFloat32 / setFloat64 stores (width 4 or 8).
SetFloat(value, width, littleEndian) ==
  LET bits == IF value = NaN
              THEN IF width = 4 THEN <<127, 192, 0, 0>>
                   ELSE <<127, 248, 0, 0, 0, 0, 0, 0>>
              ELSE value.bits
  IN IF littleEndian THEN Reverse(bits) ELSE bits

\* The bytes DataView.setUint32 stores for a wide number in 0 .. 2^32 - 1.
SetUint32(value, littleEndian) ==
  LET bits == <<value[1] \div 256, value[1] % 256, value[2] \div 256, value[2] % 256>>
  IN IF littleEndian THEN Reverse(bits) ELSE bits

\* TMP_DATA_VIEW.setFloatNN(0, value, littleEndian); push(TMP_BUFFER.slice(0, width))
WriteFloat(s, value, width, littleEndian) ==
  [Push(s, SetFloat(value, width, littleEndian)) EXCEPT !.bytePos = @ + width]

writeFloat16BE(s, value) == writeUint16BE(s, Wide(reinterpretFloat16AsUint16(value)))

writeFloat16LE(s, value) == writeUint16LE(s, Wide(reinterpretFloat16AsUint16(value)))

writeFloat32BE(s, value) == WriteFloat(s, value, 4, FALSE)

writeFloat32LE(s, value) == WriteFloat(s, value, 4, TRUE)

writeFloat64BE(s, value) == WriteFloat(s, value, 8, FALSE)

writeFloat64LE(s, value) == WriteFloat(s, value, 8, TRUE)

writeFloat64LE32(s, value) ==
  LET TMP_BUFFER == SetFloat(value, 8, TRUE)
  IN [Push(Push(s, SubSeq(TMP_BUFFER, 5, 8)), SubSeq(TMP_BUFFER, 1, 4))
        EXCEPT !.bytePos = @ + 8]

\* const result = this.#view.getFloatNN(this.bytePos, ...); this.bytePos += width
ReadFloat(s, width, littleEndian) ==
  FixedRead(s, width,
            GetFloat(Subarray(s.bytes, s.bytePos, s.bytePos + width), littleEndian))

readFloat16BE(s) ==
  FixedRead(s, 2, reinterpretUint16AsFloat16(Small(GetUint16(s, s.bytePos, FALSE))))

readFloat16LE(s) ==
  FixedRead(s, 2, reinterpretUint16AsFloat16(Small(GetUint16(s, s.bytePos, TRUE))))

readFloat32BE(s) == ReadFloat(s, 4, FALSE)

readFloat32LE(s) == ReadFloat(s, 4, TRUE)

readFloat64BE(s) == ReadFloat(s, 8, FALSE)

readFloat64LE(s) == ReadFloat(s, 8, TRUE)

\* Mutant of readFloat64LE32: the two words are stored where they were read.
readFloat64LE32_Straight(s) ==
  IF InView(s, s.bytePos + 4, 4) /\ InView(s, s.bytePos, 4)
  THEN LET TMP_BUFFER == SetUint32(GetUint32(s, s.bytePos, TRUE), TRUE)
                           \o SetUint32(GetUint32(s, s.bytePos + 4, TRUE), TRUE)
       IN Returns([s EXCEPT !.bytePos = @ + 8], GetFloat(TMP_BUFFER, TRUE))
  ELSE Throws(s, "RangeError")

readFloat64LE32(s) ==
  IF InView(s, s.bytePos + 4, 4) /\ InView(s, s.bytePos, 4)
  THEN LET TMP_BUFFER == SetUint32(GetUint32(s, s.bytePos + 4, TRUE), TRUE)
                           \o SetUint32(GetUint32(s, s.bytePos, TRUE), TRUE)
       IN Returns([s EXCEPT !.bytePos = @ + 8], GetFloat(TMP_BUFFER, TRUE))
  ELSE Throws(s, "RangeError")

(***************************************************************************)
(* Strings are sequences of code points.  UTF8_DECODER is a TextDecoder    *)
(* with fatal: true: it throws a TypeError on malformed input and drops a  *)
(* leading byte order mark.  UTF8_ENCODER is a TextEncoder.                *)
(***************************************************************************)
Malformed == <<0 - 1>>

Continuation(b) == b >= 128 /\ b <= 191

RECURSIVE Utf8From(_, _)
\* The code points encoded by b[i..Len(b)], or Malformed.
Utf8From(b, i) ==
  IF i > Len(b) THEN <<>>
  ELSE LET c == b[i]
           n == IF c < 128 THEN 1
                ELSE IF c >= 194 /\ c <= 223 THEN 2
                ELSE IF c >= 224 /\ c <= 239 THEN 3
                ELSE IF c >= 240 /\ c <= 244 THEN 4
                ELSE 0
           lower == IF c = 224 THEN 160 ELSE IF c = 240 THEN 144 ELSE 128
           upper == IF c = 237 THEN 159 ELSE IF c = 244 THEN 143 ELSE 191
           wellFormed ==
             /\ n > 0
             /\ i + n - 1 <= Len(b)
             /\ n >= 2 => (b[i + 1] >= lower /\ b[i + 1] <= upper)
             /\ n >= 3 => Continuation(b[i + 2])
             /\ n >= 4 => Continuation(b[i + 3])
           cp == IF n = 1 THEN c
                 ELSE IF n = 2 THEN (c - 192) * 64 + (b[i + 1] - 128)
                 ELSE IF n = 3
                   THEN (c - 224) * 4096 + (b[i + 1] - 128) * 64 + (b[i + 2] - 128)
                 ELSE (c - 240) * 262144 + (b[i + 1] - 128) * 4096
                      + (b[i + 2] - 128) * 64 + (b[i + 3] - 128)
       IN IF ~wellFormed THEN Malformed
          ELSE LET rest == Utf8From(b, i + n)
               IN IF rest = Malformed THEN Malformed ELSE <<cp>> \o rest

\* UTF8_DECODER.decode(slice)
Utf8Decode(slice) ==
  LET str == Utf8From(slice, 1)
  IN IF str # Malformed /\ str # <<>> /\ Head(str) = 65279 THEN Tail(str) ELSE str

\* Uint8Array.indexOf(0, fromIndex): the first index >= fromIndex holding
\* 0, or -1.
IndexOfZero(bytes, fromIndex) ==
  LET found == {i \in 0..(Len(bytes) - 1) : i >= fromIndex /\ bytes[i + 1] = 0}
  IN IF found = {} THEN 0 - 1
     ELSE CHOOSE i \in found : \A j \in found : i <= j

readUtf8(s, byteLength) ==
  LET endOfString == s.bytePos + byteLength
  IN IF endOfString > Len(s.bytes)
     THEN Throws(s, "IncompleteStream")
     ELSE LET result == Utf8Decode(Subarray(s.bytes, s.bytePos, endOfString))
          IN IF result = Malformed
             THEN Throws(s, "TypeError")
             ELSE Returns([s EXCEPT !.bytePos = endOfString], result)

\* Mutant of readNulUtf8: the search for NUL starts at index 0.
readNulUtf8_FromStart(s) ==
  LET endOfString == IndexOfZero(s.bytes, 0)
  IN IF endOfString < 0
     THEN Throws(s, "IncompleteStream")
     ELSE LET result == Utf8Decode(Subarray(s.bytes, s.bytePos, endOfString))
          IN IF result = Malformed
             THEN Throws(s, "TypeError")
             ELSE Returns([s EXCEPT !.bytePos = endOfString + 1], result)

\* Mutant of readNulUtf8: the cursor is left on the zero byte.
readNulUtf8_OnNul(s) ==
  LET endOfString == IndexOfZero(s.bytes, s.bytePos)
  IN IF endOfString < 0
     THEN Throws(s, "IncompleteStream")
     ELSE LET result == Utf8Decode(Subarray(s.bytes, s.bytePos, endOfString))
          IN IF result = Malformed
             THEN Throws(s, "TypeError")
             ELSE Returns([s EXCEPT !.bytePos = endOfString], result)

readNulUtf8(s) ==
  LET endOfString == IndexOfZero(s.bytes, s.bytePos)
  IN IF endOfString < 0
     THEN Throws(s, "IncompleteStream")
     ELSE LET result == Utf8Decode(Subarray(s.bytes, s.bytePos, endOfString))
          IN IF result = Malformed
             THEN Throws(s, "TypeError")
             ELSE Returns([s EXCEPT !.bytePos = endOfString + 1], result)

\* ReadableStream.equals: the comparison loop from index i on.
RECURSIVE equalsLoop(_, _, _, _)
equalsLoop(left, right, i, leftLen) ==
  IF i < leftLen
  THEN IF At(left.bytes, left.bytePos + i) # At(right.bytes, right.bytePos + i)
       THEN FALSE
       ELSE equalsLoop(left, right, i + 1, leftLen)
  ELSE TRUE

\* Mutant of equals: the partial byte is compared on all its bits.
equals_NoMask(left, right) ==
  IF left.bitPos # right.bitPos THEN FALSE
  ELSE LET leftLen == left.byteEnd - left.bytePos
           rightLen == right.byteEnd - right.bytePos
       IN IF leftLen # rightLen THEN FALSE
          ELSE IF leftLen = 0 THEN TRUE
          ELSE equalsLoop(left, right, 0, leftLen)

equals(left, right) ==
  IF left.bitPos # right.bitPos THEN FALSE
  ELSE LET leftLen == left.byteEnd - left.bytePos
           rightLen == right.byteEnd - right.bytePos
       IN IF leftLen # rightLen THEN FALSE
          ELSE IF leftLen = 0 THEN TRUE
          ELSE IF left.bitPos # 0
               THEN LET leftPartialByte == At(left.bytes, left.bytePos)
                        rightPartialByte == At(right.bytes, right.bytePos)
                        mask == Wide(Shl8(1, 8 - left.bitPos) - 1)
                    IN IF JsAnd(Operand(leftPartialByte), mask)
                            # JsAnd(Operand(rightPartialByte), mask)
                       THEN FALSE
                       ELSE equalsLoop(left, right, 1, leftLen)
               ELSE equalsLoop(left, right, 0, leftLen)

(***************************************************************************)
(* The state machine.  A run works on one stream object: a WritableStream  *)
(* constructed empty, or a ReadableStream constructed over a buffer with   *)
(* a bit offset.  Each step is one call of a public method.  call records  *)
(* the last call: the method, its bit count or size n, its value, the      *)
(* object before the call, the value returned and the exception thrown.    *)
(* The round-trip runs further keep the sequence of values written         *)
(* (fields) and of the values read back (got); the runs comparing two      *)
(* readers keep the second reader (other).                                 *)
(***************************************************************************)
VARIABLES target, ws, rs, call, writes, lastBytes, dirty, fields, got, other

vars == <<target, ws, rs, call, writes, lastBytes, dirty, fields, got, other>>

\* Bounds of the model.
MaxWrites == 2
MaxLen == 2
MaxPast == 1

\* The n high bits of 1010...10 (32 bits), an n-bit unsigned field value.
Pattern(n) == IF n = 0 THEN Wide(0) ELSE WDivPow2(<<43690, 43690>>, 32 - n)

\* The same bits read as an n-bit two's complement value (negative for n > 0).
SignedPattern(n) == IF n = 0 THEN Wide(0) ELSE WAdd(Pattern(n), WNeg(Pow2(n)))

Widths == {0, 1, 7, 8, 9, 32, 33}

UintFields == {<<n, IF n > 32 THEN Wide(0) ELSE Pattern(n)>> : n \in Widths}

SintFields == {<<n, IF n > 32 THEN Wide(0) ELSE SignedPattern(n)>> : n \in Widths}

ShortFields == {5, 16, 40}

ZeroBitCounts == {0, 1, 5, 8, 11, 35}

Strings == {<<>>, <<233>>}

ByteArrays == {<<>>, <<1, 2>>}

Sizes == {0, 2}

Leb128Values == {Wide(0), Wide(300), <<65535, 65535>>}

\* A writer holding one byte, the argument of write().
OtherWriter == writeUint8(NewWritableStream, 7)

RECURSIVE SeqsUpTo(_, _)
\* The sequences over S of length at most n.
SeqsUpTo(S, n) ==
  IF n = 0 THEN {<<>>}
  ELSE LET shorter == SeqsUpTo(S, n - 1)
       IN shorter \cup {Append(q, x) : q \in {r \in shorter : Len(r) = n - 1}, x \in S}

\* Buffers a reader is constructed over: the sequences of NUL and "A", U+00E9
\* followed by NUL, and five bytes for the wide reads.
BufferBytes == {0, 65}

Buffers ==
  SeqsUpTo(BufferBytes, MaxLen) \cup {<<195, 169, 0>>, <<137, 171, 205, 239, 1>>}

BitOffsets == 0..7

InitWriter ==
  /\ target = "writer"
  /\ ws = NewWritableStream
  /\ rs = NewReadableStream(<<>>, 0, 0)

InitReader ==
  /\ target = "reader"
  /\ ws = NewWritableStream
  /\ \E bytes \in Buffers, bitOffset \in BitOffsets :
       rs = NewReadableStream(bytes, 0, bitOffset)

Init ==
  /\ InitWriter \/ InitReader
  /\ call = NoCall
  /\ writes = 0
  /\ lastBytes = NoBytes
  /\ dirty = FALSE
  /\ fields = <<>>
  /\ got = <<>>
  /\ other = NewReadableStream(<<>>, 0, 0)

\* A call of a writer method that appends or moves the cursor.
WriterCall(op, n, value, out) ==
  /\ target = "writer"
  /\ writes < MaxWrites
  /\ \E o \in {out} :
       /\ ws' = o.s
       /\ call' = [op |-> op, n |-> n, value |-> value, pre |-> ws, ret |-> o.ret,
                   err |-> o.err, lastBytes |-> lastBytes, dirty |-> dirty]
  /\ writes' = writes + 1
  /\ dirty' = TRUE
  /\ UNCHANGED <<target, rs, lastBytes, fields, got, other>>

WriteUint8 ==
  WriterCall("writeUint8", 0, Wide(165), Returns(writeUint8(ws, 165), <<>>))

WriteSint8 ==
  WriterCall("writeSint8", 0, Wide(0 - 2), Returns(writeSint8(ws, Wide(0 - 2)), <<>>))

WriteUint16BE ==
  WriterCall("writeUint16BE", 0, Wide(4660), Returns(writeUint16BE(ws, Wide(4660)), <<>>))

WriteUint16LE ==
  WriterCall("writeUint16LE", 0, Wide(4660), Returns(writeUint16LE(ws, Wide(4660)), <<>>))

WriteSint16LE ==
  WriterCall("writeSint16LE", 0, Wide(0 - 2), Returns(writeSint16LE(ws, Wide(0 - 2)), <<>>))

WriteUint32BE ==
  WriterCall("writeUint32BE", 0, <<35243, 52719>>,
             Returns(writeUint32BE(ws, <<35243, 52719>>), <<>>))

WriteUint32LE ==
  WriterCall("writeUint32LE", 0, <<35243, 52719>>,
             Returns(writeUint32LE(ws, <<35243, 52719>>), <<>>))

WriteSint32LE ==
  WriterCall("writeSint32LE", 0, Wide(0 - 2), Returns(writeSint32LE(ws, Wide(0 - 2)), <<>>))

WriteUint32Leb128 ==
  \E v \in Leb128Values :
    WriterCall("writeUint32Leb128", 0, v, Returns(writeUint32Leb128(ws, v), <<>>))

WriteBytes ==
  \E b \in ByteArrays : WriterCall("writeBytes", Len(b), b, Returns(writeBytes(ws, b), <<>>))

WriteZeros ==
  \E n \in Sizes : WriterCall("writeZeros", n, <<>>, Returns(writeZeros(ws, n), <<>>))

WriteUtf8 ==
  \E str \in Strings : WriterCall("writeUtf8", 0, str, Returns(writeUtf8(ws, str), <<>>))

WriteNulUtf8 ==
  WriterCall("writeNulUtf8", 0, <<65>>, Returns(writeNulUtf8(ws, <<65>>), <<>>))

Write == WriterCall("write", 0, <<>>, Returns(write(ws, OtherWriter), <<>>))

WriteZerosBits ==
  \E n \in ZeroBitCounts :
    WriterCall("writeZerosBits", n, <<>>, Returns(writeZerosBits(ws, n), <<>>))

WriteBoolBits ==
  \E b \in BOOLEAN :
    WriterCall("writeBoolBits", 1, IF b THEN Wide(1) ELSE Wide(0), writeBoolBits(ws, b))

WriteUint32Bits ==
  \E f \in UintFields : WriterCall("writeUint32Bits", f[1], f[2], writeUint32Bits(ws, f[1], f[2]))

WriteSint32Bits ==
  \E f \in SintFields : WriterCall("writeSint32Bits", f[1], f[2], writeSint32Bits(ws, f[1], f[2]))

WriteUint16Bits ==
  \E n \in ShortFields :
    WriterCall("writeUint16Bits", n, Wide(21), writeUint16Bits(ws, n, Wide(21)))

WriteSint16Bits ==
  \E n \in ShortFields :
    WriterCall("writeSint16Bits", n, Wide(0 - 11), writeSint16Bits(ws, n, Wide(0 - 11)))

WriterAlign == WriterCall("align", 0, <<>>, Returns(WritableStream_align(ws), <<>>))

WriterAsByteStream ==
  WriterCall("asByteStream", 0, <<>>, Returns(WritableStream_asByteStream(ws), <<>>))

\* asBitStream() and getBytes() append nothing.
WriterAsBitStream ==
  /\ target = "writer"
  /\ ws' = WritableStream_asBitStream(ws)
  /\ call' = [op |-> "asBitStream", n |-> 0, value |-> <<>>, pre |-> ws, ret |-> <<>>,
              err |-> "none", lastBytes |-> lastBytes, dirty |-> dirty]
  /\ UNCHANGED <<target, rs, writes, lastBytes, dirty, fields, got, other>>

GetBytes ==
  /\ target = "writer"
  /\ \E out \in {getBytes(ws)} :
        /\ ws' = out.s
        /\ call' = [op |-> "getBytes", n |-> 0, value |-> <<>>, pre |-> ws,
                    ret |-> out.ret, err |-> out.err, lastBytes |-> lastBytes,
                    dirty |-> dirty]
        /\ lastBytes' = out.ret
  /\ dirty' = FALSE
  /\ UNCHANGED <<target, rs, writes, fields, got, other>>

\* The float writers, with the value 1 or NaN.
FloatWrites ==
  LET one16 == Float("finite", FALSE, WMulPow2(Wide(1), 24))
      one32 == Double(<<63, 128, 0, 0>>)
      one64 == Double(<<63, 240, 0, 0, 0, 0, 0, 0>>)
  IN {[op |-> "writeFloat16BE", value |-> one16],
      [op |-> "writeFloat16LE", value |-> NaN],
      [op |-> "writeFloat32BE", value |-> one32],
      [op |-> "writeFloat32LE", value |-> NaN],
      [op |-> "writeFloat64BE", value |-> NaN],
      [op |-> "writeFloat64LE", value |-> one64],
      [op |-> "writeFloat64LE32", value |-> one64]}

\* writeFloatX(value)
WriteFloatCall(s, op, value) ==
  IF op = "writeFloat16BE" THEN writeFloat16BE(s, value)
  ELSE IF op = "writeFloat16LE" THEN writeFloat16LE(s, value)
  ELSE IF op = "writeFloat32BE" THEN writeFloat32BE(s, value)
  ELSE IF op = "writeFloat32LE" THEN writeFloat32LE(s, value)
  ELSE IF op = "writeFloat64BE" THEN writeFloat64BE(s, value)
  ELSE IF op = "writeFloat64LE" THEN writeFloat64LE(s, value)
  ELSE writeFloat64LE32(s, value)

WriteFloats ==
  \E w \in FloatWrites :
    WriterCall(w.op, 0, w.value, Returns(WriteFloatCall(ws, w.op, w.value), <<>>))

NextWriter ==
  \/ WriteUint8 \/ WriteSint8 \/ WriteUint16BE \/ WriteUint16LE \/ WriteSint16LE
  \/ WriteUint32BE \/ WriteUint32LE \/ WriteSint32LE \/ WriteUint32Leb128
  \/ WriteBytes \/ WriteZeros \/ WriteUtf8 \/ WriteNulUtf8 \/ Write
  \/ WriteZerosBits \/ WriteBoolBits \/ WriteUint32Bits \/ WriteSint32Bits
  \/ WriteUint16Bits \/ WriteSint16Bits \/ WriterAlign \/ WriterAsByteStream
  \/ WriterAsBitStream \/ GetBytes \/ WriteFloats

\* A call of a reader method.
ReaderCall(op, n, out) ==
  /\ target = "reader"
  /\ rs.bytePos <= rs.byteEnd + MaxPast
  /\ \E o \in {out} :
       /\ rs' = o.s
       /\ call' = [op |-> op, n |-> n, value |-> <<>>, pre |-> rs, ret |-> o.ret,
                   err |-> o.err, lastBytes |-> NoBytes, dirty |-> FALSE]
  /\ UNCHANGED <<target, ws, writes, lastBytes, dirty, fields, got, other>>

Lengths == {0, 1, MaxLen + 1}

BitCounts == Widths

SkipCounts == {0, 3, 40}

ReaderAsBitStream == ReaderCall("asBitStream", 0, ReadableStream_asBitStream(rs))

ReaderAsByteStream == ReaderCall("asByteStream", 0, ReadableStream_asByteStream(rs))

ReaderAlign == ReaderCall("align", 0, Returns(ReadableStream_align(rs), <<>>))

ReaderTail == ReaderCall("tail", 0, tail(rs))

TailBytes == ReaderCall("tailBytes", 0, tailBytes(rs))

Available == ReaderCall("available", 0, Returns(rs, available(rs)))

Take == \E n \in Lengths : ReaderCall("take", n, take(rs, n))

TakeBytes == \E n \in Lengths : ReaderCall("takeBytes", n, takeBytes(rs, n))

ReadSint8 == ReaderCall("readSint8", 1, readSint8(rs))

ReadSint16LE == ReaderCall("readSint16LE", 2, readSint16LE(rs))

ReadSint32LE == ReaderCall("readSint32LE", 4, readSint32LE(rs))

ReadUint8 == ReaderCall("readUint8", 1, readUint8(rs))

PeekUint8 == ReaderCall("peekUint8", 1, peekUint8(rs))

ReadUint16BE == ReaderCall("readUint16BE", 2, readUint16BE(rs))

ReadUint16LE == ReaderCall("readUint16LE", 2, readUint16LE(rs))

ReadUint32BE == ReaderCall("readUint32BE", 4, readUint32BE(rs))

ReadUint32LE == ReaderCall("readUint32LE", 4, readUint32LE(rs))

Skip == \E n \in Lengths : ReaderCall("skip", n, Returns(skip(rs, n), <<>>))

SkipBits == \E n \in SkipCounts : ReaderCall("skipBits", n, skipBits(rs, n))

ReadBoolBits == ReaderCall("readBoolBits", 1, readBoolBits(rs))

ReadSint16Bits == \E n \in ShortFields : ReaderCall("readSint16Bits", n, readSint16Bits(rs, n))

ReadSint32Bits == \E n \in BitCounts : ReaderCall("readSint32Bits", n, readSint32Bits(rs, n))

ReadUint16Bits == \E n \in ShortFields : ReaderCall("readUint16Bits", n, readUint16Bits(rs, n))

ReadUint32Bits == \E n \in BitCounts : ReaderCall("readUint32Bits", n, readUint32Bits(rs, n))

ReadUint32Leb128 == ReaderCall("readUint32Leb128", 0, readUint32Leb128(rs))

ReadUtf8 == \E n \in Lengths : ReaderCall("readUtf8", n, readUtf8(rs, n))

ReadNulUtf8 == ReaderCall("readNulUtf8", 0, readNulUtf8(rs))

\* The float readers.
FloatReads ==
  {"readFloat16BE", "readFloat16LE", "readFloat32BE", "readFloat32LE",
   "readFloat64BE", "readFloat64LE", "readFloat64LE32"}

\* readFloatX()
ReadFloatCall(s, op) ==
  IF op = "readFloat16BE" THEN readFloat16BE(s)
  ELSE IF op = "readFloat16LE" THEN readFloat16LE(s)
  ELSE IF op = "readFloat32BE" THEN readFloat32BE(s)
  ELSE IF op = "readFloat32LE" THEN readFloat32LE(s)
  ELSE IF op = "readFloat64BE" THEN readFloat64BE(s)
  ELSE IF op = "readFloat64LE" THEN readFloat64LE(s)
  ELSE readFloat64LE32(s)

ReadFloats == \E op \in FloatReads : ReaderCall(op, 0, ReadFloatCall(rs, op))

NextReader ==
  \/ ReaderAsBitStream \/ ReaderAsByteStream \/ ReaderAlign \/ ReaderTail \/ TailBytes
  \/ Available \/ Take \/ TakeBytes \/ ReadSint8 \/ ReadSint16LE \/ ReadSint32LE
  \/ ReadUint8 \/ PeekUint8 \/ ReadUint16BE \/ ReadUint16LE \/ ReadUint32BE
  \/ ReadUint32LE \/ Skip \/ SkipBits \/ ReadBoolBits \/ ReadSint16Bits
  \/ ReadSint32Bits \/ ReadUint16Bits \/ ReadUint32Bits \/ ReadUint32Leb128
  \/ ReadUtf8 \/ ReadNulUtf8 \/ ReadFloats

Next == NextWriter \/ NextReader

Spec == Init /\ [][Next]_vars

(***************************************************************************)
(* Bit-field round trips.  A run writes up to MaxFields bit fields to a    *)
(* WritableStream constructed empty, calls align() and getBytes(),         *)
(* constructs a ReadableStream over the bytes and reads (or skips) the     *)
(* fields in order with the same widths.                                   *)
(***************************************************************************)
MaxFields == 2

\* The largest and the smallest n-bit two's complement values.
MaxSigned(n) == IF n = 0 THEN Wide(0) ELSE WAdd(Pow2(n - 1), Wide(0 - 1))

MinSigned(n) == IF n = 0 THEN Wide(0) ELSE WNeg(Pow2(n - 1))

Field(kind, n, v) == [kind |-> kind, n |-> n, v |-> v]

\* The fields a run chooses from: the widths 0, 1, 9 and 32 (Uint32), 7 and
\* 16 (Uint16), 1, 31 and 32 (Sint32), 5 and 16 (Sint16), with the extreme
\* values of each width and an alternating bit pattern.
FieldChoices ==
  {Field("Uint32", n, v) : n \in {0, 1, 9, 32}, v \in {Wide(0)}}
    \cup {Field("Uint32", n, WAdd(Pow2(n), Wide(0 - 1))) : n \in {1, 9, 32}}
    \cup {Field("Uint32", n, Pattern(n)) : n \in {9, 32}}
    \cup {Field("Uint16", n, Pattern(n)) : n \in {7, 16}}
    \cup {Field("Sint32", n, MinSigned(n)) : n \in {0, 1, 31, 32}}
    \cup {Field("Sint32", n, MaxSigned(n)) : n \in {31, 32}}
    \cup {Field("Sint16", n, SignedPattern(n)) : n \in {5, 16}}
    \cup {Field("Sint16", n, Wide(0 - 1)) : n \in {5, 16}}

\* The writer's call for a field.
WriteFieldCall(s, f) ==
  IF f.kind = "Uint32" THEN writeUint32Bits(s, f.n, f.v)
  ELSE IF f.kind = "Uint16" THEN writeUint16Bits(s, f.n, f.v)
  ELSE IF f.kind = "Sint32" THEN writeSint32Bits(s, f.n, f.v)
  ELSE writeSint16Bits(s, f.n, f.v)

\* The reader's matching call.
ReadFieldCall(s, f) ==
  IF f.kind = "Uint32" THEN readUint32Bits(s, f.n)
  ELSE IF f.kind = "Uint16" THEN readUint16Bits(s, f.n)
  ELSE IF f.kind = "Sint32" THEN readSint32Bits(s, f.n)
  ELSE readSint16Bits(s, f.n)

InitFields ==
  /\ target = "writer"
  /\ ws = NewWritableStream
  /\ rs = NewReadableStream(<<>>, 0, 0)
  /\ call = NoCall
  /\ writes = 0
  /\ lastBytes = NoBytes
  /\ dirty = FALSE
  /\ fields = <<>>
  /\ got = <<>>
  /\ other = NewReadableStream(<<>>, 0, 0)

WriteField ==
  /\ target = "writer"
  /\ Len(fields) < MaxFields
  /\ \E f \in FieldChoices :
       \E o \in {WriteFieldCall(ws, f)} :
         /\ ws' = o.s
         /\ call' = [op |-> "write" \o f.kind \o "Bits", n |-> f.n, err |-> o.err,
                     value |-> f.v, pre |-> ws, ret |-> o.ret,
                     lastBytes |-> lastBytes, dirty |-> dirty]
         /\ fields' = Append(fields, f)
  /\ writes' = writes + 1
  /\ dirty' = TRUE
  /\ UNCHANGED <<target, rs, lastBytes, got, other>>

\* align(), getBytes() and new ReadableStream(bytes)
Finish ==
  /\ target = "writer"
  /\ \E o \in {getBytes(WritableStream_align(ws))} :
       /\ ws' = o.s
       /\ rs' = NewReadableStream(o.ret, 0, 0)
       /\ call' = [op |-> "getBytes", n |-> 0, err |-> o.err, value |-> <<>>,
                   pre |-> WritableStream_align(ws), ret |-> o.ret,
                   lastBytes |-> lastBytes, dirty |-> dirty]
       /\ lastBytes' = o.ret
  /\ target' = "reader"
  /\ dirty' = FALSE
  /\ UNCHANGED <<writes, fields, got, other>>

ReadField ==
  /\ target = "reader"
  /\ Len(got) < Len(fields)
  /\ LET f == fields[Len(got) + 1]
     IN \E o \in {ReadFieldCall(rs, f)} :
          /\ rs' = o.s
          /\ call' = [op |-> "read" \o f.kind \o "Bits", n |-> f.n, err |-> o.err,
                      value |-> <<>>, pre |-> rs, ret |-> o.ret,
                      lastBytes |-> NoBytes, dirty |-> FALSE]
          /\ got' = Append(got, [skipped |-> FALSE, err |-> o.err, v |-> o.ret])
  /\ UNCHANGED <<target, ws, writes, lastBytes, dirty, fields, other>>

SkipField ==
  /\ target = "reader"
  /\ Len(got) < Len(fields)
  /\ LET f == fields[Len(got) + 1]
     IN \E o \in {skipBits(rs, f.n)} :
          /\ rs' = o.s
          /\ call' = [op |-> "skipBits", n |-> f.n, err |-> o.err,
                      value |-> <<>>, pre |-> rs, ret |-> o.ret,
                      lastBytes |-> NoBytes, dirty |-> FALSE]
          /\ got' = Append(got, [skipped |-> TRUE, err |-> o.err, v |-> Wide(0)])
  /\ UNCHANGED <<target, ws, writes, lastBytes, dirty, fields, other>>

NextFields == WriteField \/ Finish \/ ReadField \/ SkipField

SpecFields == InitFields /\ [][NextFields]_vars

(***************************************************************************)
(* LEB128 round trips.  A run writes one value with writeUint32Leb128 to a *)
(* WritableStream constructed empty, calls getBytes(), constructs a        *)
(* ReadableStream over the bytes and calls readUint32Leb128.               *)
(***************************************************************************)
\* The exponents k of the values 2^k - 1, 2^k and 2^k + 1 written.
LebExponents == 0..32

\* The values written: those around the powers of two that are Uint32, among
\* them 0, 1, 127, 128, 16384, 2^28 - 1 and 2^32 - 1.
LebValues ==
  {v \in {WAdd(Pow2(k), Wide(d)) : k \in LebExponents, d \in {0 - 1, 0, 1}} :
     WLess(v, Pow2(32))}

InitLeb ==
  /\ target = "writer"
  /\ ws = NewWritableStream
  /\ rs = NewReadableStream(<<>>, 0, 0)
  /\ call = NoCall
  /\ writes = 0
  /\ lastBytes = NoBytes
  /\ dirty = FALSE
  /\ \E v \in LebValues : fields = <<v>>
  /\ got = <<>>
  /\ other = NewReadableStream(<<>>, 0, 0)

LebWrite ==
  /\ target = "writer"
  /\ writes = 0
  /\ ws' = writeUint32Leb128(ws, fields[1])
  /\ call' = [op |-> "writeUint32Leb128", n |-> 0, err |-> "none",
              value |-> fields[1], pre |-> ws, ret |-> <<>>,
              lastBytes |-> lastBytes, dirty |-> dirty]
  /\ writes' = 1
  /\ dirty' = TRUE
  /\ UNCHANGED <<target, rs, lastBytes, fields, got, other>>

\* getBytes() and new ReadableStream(bytes)
LebFinish ==
  /\ target = "writer"
  /\ writes = 1
  /\ \E o \in {getBytes(ws)} :
       /\ ws' = o.s
       /\ rs' = NewReadableStream(o.ret, 0, 0)
       /\ call' = [op |-> "getBytes", n |-> 0, err |-> o.err, value |-> <<>>,
                   pre |-> ws, ret |-> o.ret, lastBytes |-> lastBytes,
                   dirty |-> dirty]
       /\ lastBytes' = o.ret
  /\ target' = "reader"
  /\ dirty' = FALSE
  /\ UNCHANGED <<writes, fields, got, other>>

LebRead ==
  /\ target = "reader"
  /\ got = <<>>
  /\ \E o \in {readUint32Leb128(rs)} :
       /\ rs' = o.s
       /\ call' = [op |-> "readUint32Leb128", n |-> 0, err |-> o.err,
                   value |-> <<>>, pre |-> rs, ret |-> o.ret,
                   lastBytes |-> NoBytes, dirty |-> FALSE]
       /\ got' = <<[skipped |-> FALSE, err |-> o.err, v |-> o.ret]>>
  /\ UNCHANGED <<target, ws, writes, lastBytes, dirty, fields, other>>

NextLeb == LebWrite \/ LebFinish \/ LebRead

SpecLeb == InitLeb /\ [][NextLeb]_vars

(***************************************************************************)
(* Comparing readers.  A run constructs two ReadableStreams (rs and other) *)
(* over buffers of at most MaxEqLen bytes, each with a bit offset, moves   *)
(* them forward with skip(1) while bytes remain, and calls                 *)
(* ReadableStream.equals(rs, other).                                       *)
(***************************************************************************)
MaxEqLen == 2

\* 0x0e, 0x0f and 0x8f: they differ in the lowest or in the highest bit.
EqBytes == {14, 15, 143}

EqBuffers == SeqsUpTo(EqBytes, MaxEqLen)

EqBitOffsets == {0, 3}

InitEquals ==
  /\ target = "readers"
  /\ ws = NewWritableStream
  /\ \E bytes \in EqBuffers, bitOffset \in EqBitOffsets :
       rs = NewReadableStream(bytes, 0, bitOffset)
  /\ \E bytes \in EqBuffers, bitOffset \in EqBitOffsets :
       other = NewReadableStream(bytes, 0, bitOffset)
  /\ call = NoCall
  /\ writes = 0
  /\ lastBytes = NoBytes
  /\ dirty = FALSE
  /\ fields = <<>>
  /\ got = <<>>

\* rs.skip(1)
SkipLeft ==
  /\ target = "readers"
  /\ call.op = "new"
  /\ rs.bytePos < rs.byteEnd
  /\ rs' = skip(rs, 1)
  /\ UNCHANGED <<target, ws, call, writes, lastBytes, dirty, fields, got, other>>

\* other.skip(1)
SkipRight ==
  /\ target = "readers"
  /\ call.op = "new"
  /\ other.bytePos < other.byteEnd
  /\ other' = skip(other, 1)
  /\ UNCHANGED <<target, ws, rs, call, writes, lastBytes, dirty, fields, got>>

\* ReadableStream.equals(rs, other); value is the second argument.
Compare ==
  /\ target = "readers"
  /\ call.op = "new"
  /\ call' = [op |-> "equals", n |-> 0, err |-> "none", value |-> other,
              pre |-> rs, ret |-> equals(rs, other), lastBytes |-> NoBytes,
              dirty |-> FALSE]
  /\ UNCHANGED <<target, ws, rs, writes, lastBytes, dirty, fields, got, other>>

NextEquals == SkipLeft \/ SkipRight \/ Compare

SpecEquals == InitEquals /\ [][NextEquals]_vars

(***************************************************************************)
(* Fixed-width integer round trips.  A run writes one value with one of    *)
(* the byte-aligned integer writers to a WritableStream constructed empty, *)
(* calls getBytes(), constructs a ReadableStream over the bytes and calls  *)
(* the reader of the same type.                                            *)
(***************************************************************************)
\* The unsigned values of w bits written: 0, 2^w - 1, and 2^k - 1, 2^k for k < w.
UnsignedValues(w) ==
  {Wide(0), WAdd(Pow2(w), Wide(0 - 1))}
    \cup {WAdd(Pow2(k), Wide(d)) : k \in 0..(w - 1), d \in {0 - 1, 0}}

\* The signed values of w bits written: the unsigned values of w - 1 bits,
\* their negations, and the minimum -2^(w-1).
SignedValues(w) ==
  UnsignedValues(w - 1) \cup {WNeg(v) : v \in UnsignedValues(w - 1)}
    \cup {WNeg(Pow2(w - 1))}

\* A type, its width in bytes and a value of its range.
FixedChoices ==
  {Field("Uint8", 1, v) : v \in UnsignedValues(8)}
    \cup {Field("Uint16BE", 2, v) : v \in UnsignedValues(16)}
    \cup {Field("Uint16LE", 2, v) : v \in UnsignedValues(16)}
    \cup {Field("Uint32BE", 4, v) : v \in UnsignedValues(32)}
    \cup {Field("Uint32LE", 4, v) : v \in UnsignedValues(32)}
    \cup {Field("Sint8", 1, v) : v \in SignedValues(8)}
    \cup {Field("Sint16LE", 2, v) : v \in SignedValues(16)}
    \cup {Field("Sint32LE", 4, v) : v \in SignedValues(32)}

\* writeX(v); writeUint8 is given a plain byte.
WriteFixedCall(s, f) ==
  IF f.kind = "Uint8" THEN writeUint8(s, Small(f.v))
  ELSE IF f.kind = "Uint16BE" THEN writeUint16BE(s, f.v)
  ELSE IF f.kind = "Uint16LE" THEN writeUint16LE(s, f.v)
  ELSE IF f.kind = "Uint32BE" THEN writeUint32BE(s, f.v)
  ELSE IF f.kind = "Uint32LE" THEN writeUint32LE(s, f.v)
  ELSE IF f.kind = "Sint8" THEN writeSint8(s, f.v)
  ELSE IF f.kind = "Sint16LE" THEN writeSint16LE(s, f.v)
  ELSE writeSint32LE(s, f.v)

\* readX(); the results of readUint8 and readSint8 are plain integers.
ReadFixedCall(s, f) ==
  IF f.kind = "Uint8"
  THEN LET r == readUint8(s)
       IN IF r.err = "none" THEN Returns(r.s, Wide(r.ret)) ELSE r
  ELSE IF f.kind = "Uint16BE" THEN readUint16BE(s)
  ELSE IF f.kind = "Uint16LE" THEN readUint16LE(s)
  ELSE IF f.kind = "Uint32BE" THEN readUint32BE(s)
  ELSE IF f.kind = "Uint32LE" THEN readUint32LE(s)
  ELSE IF f.kind = "Sint8"
  THEN LET r == readSint8(s)
       IN IF r.err = "none" THEN Returns(r.s, Wide(r.ret)) ELSE r
  ELSE IF f.kind = "Sint16LE" THEN readSint16LE(s)
  ELSE readSint32LE(s)

InitFixed ==
  /\ target = "writer"
  /\ ws = NewWritableStream
  /\ rs = NewReadableStream(<<>>, 0, 0)
  /\ call = NoCall
  /\ writes = 0
  /\ lastBytes = NoBytes
  /\ dirty = FALSE
  /\ \E f \in FixedChoices : fields = <<f>>
  /\ got = <<>>
  /\ other = NewReadableStream(<<>>, 0, 0)

WriteFixed ==
  /\ target = "writer"
  /\ writes = 0
  /\ ws' = WriteFixedCall(ws, fields[1])
  /\ call' = [op |-> "write" \o fields[1].kind, n |-> fields[1].n, err |-> "none",
              value |-> fields[1].v, pre |-> ws, ret |-> <<>>,
              lastBytes |-> lastBytes, dirty |-> dirty]
  /\ writes' = 1
  /\ dirty' = TRUE
  /\ UNCHANGED <<target, rs, lastBytes, fields, got, other>>

ReadFixed ==
  /\ target = "reader"
  /\ got = <<>>
  /\ \E o \in {ReadFixedCall(rs, fields[1])} :
       /\ rs' = o.s
       /\ call' = [op |-> "read" \o fields[1].kind, n |-> fields[1].n, err |-> o.err,
                   value |-> <<>>, pre |-> rs, ret |-> o.ret,
                   lastBytes |-> NoBytes, dirty |-> FALSE]
       /\ got' = <<[skipped |-> FALSE, err |-> o.err, v |-> o.ret]>>
  /\ UNCHANGED <<target, ws, writes, lastBytes, dirty, fields, other>>

\* getBytes() and new ReadableStream(bytes) are LebFinish.
NextFixed == WriteFixed \/ LebFinish \/ ReadFixed

SpecFixed == InitFixed /\ [][NextFixed]_vars

(***************************************************************************)
(* LEB128 decoding.  A run constructs a reader over some bytes, skips up   *)
(* to two of them and calls readUint32Leb128.                              *)
(***************************************************************************)
MaxLebLen == 6

\* A last byte, a byte 80 continuing with zeros, a byte ff continuing with
\* ones.
LebBytes == {1, 128, 255}

LebBuffers == SeqsUpTo(LebBytes, MaxLebLen)

InitLebRead ==
  /\ target = "reader"
  /\ ws = NewWritableStream
  /\ \E bytes \in LebBuffers : rs = NewReadableStream(bytes, 0, 0)
  /\ call = NoCall
  /\ writes = 0
  /\ lastBytes = NoBytes
  /\ dirty = FALSE
  /\ fields = <<>>
  /\ got = <<>>
  /\ other = NewReadableStream(<<>>, 0, 0)

LebSkip ==
  /\ target = "reader"
  /\ got = <<>>
  /\ rs.bytePos < 2
  /\ rs' = skip(rs, 1)
  /\ call' = [op |-> "skip", n |-> 1, err |-> "none", value |-> <<>>,
              pre |-> rs, ret |-> <<>>, lastBytes |-> NoBytes, dirty |-> FALSE]
  /\ UNCHANGED <<target, ws, writes, lastBytes, dirty, fields, got, other>>

\* readUint32Leb128() is LebRead.
NextLebRead == LebSkip \/ LebRead

SpecLebRead == InitLebRead /\ [][NextLebRead]_vars

(***************************************************************************)
(* Word-swapped doubles.  A run reads a double with readFloat64LE32 from   *)
(* eight bytes, writes the value obtained with writeFloat64LE32 to a new   *)
(* writer, and reads the bytes written with readFloat64LE32.               *)
(***************************************************************************)
\* 32-bit words in storage order: halves of 0, of Infinity, of NaN, of
\* -Infinity, of a NaN with a payload, and words of four different bytes.
SwapWords ==
  {<<0, 0, 0, 0>>, <<1, 2, 3, 4>>, <<5, 6, 7, 8>>, <<0, 0, 240, 127>>,
   <<0, 0, 248, 127>>, <<0, 0, 240, 255>>, <<1, 0, 240, 127>>, <<0, 0, 0, 128>>}

SwapBuffers ==
  {a \o b : a \in SwapWords, b \in SwapWords} \cup {<<1, 2, 3, 4, 5, 6, 7>>}

SwapHalves(bytes) == SubSeq(bytes, 5, 8) \o SubSeq(bytes, 1, 4)

InitSwap ==
  /\ target = "reader"
  /\ ws = NewWritableStream
  /\ \E bytes \in SwapBuffers :
       /\ rs = NewReadableStream(bytes, 0, 0)
       /\ fields = <<Field("Float64LE32", 8, bytes)>>
  /\ call = NoCall
  /\ writes = 0
  /\ lastBytes = NoBytes
  /\ dirty = FALSE
  /\ got = <<>>
  /\ other = NewReadableStream(<<>>, 0, 0)

SwapRead ==
  /\ target = "reader"
  /\ got = <<>> \/ (Len(got) = 1 /\ call.op = "getBytes")
  /\ \E o \in {readFloat64LE32(rs)} :
       /\ rs' = o.s
       /\ call' = [op |-> "readFloat64LE32", n |-> 0, err |-> o.err,
                   value |-> <<>>, pre |-> rs, ret |-> o.ret,
                   lastBytes |-> lastBytes, dirty |-> FALSE]
       /\ got' = Append(got, [skipped |-> FALSE, err |-> o.err, v |-> o.ret])
  /\ UNCHANGED <<target, ws, writes, lastBytes, dirty, fields, other>>

SwapWrite ==
  /\ target = "reader"
  /\ Len(got) = 1
  /\ got[1].err = "none"
  /\ writes = 0
  /\ ws' = writeFloat64LE32(ws, got[1].v)
  /\ call' = [op |-> "writeFloat64LE32", n |-> 0, err |-> "none",
              value |-> got[1].v, pre |-> ws, ret |-> <<>>,
              lastBytes |-> lastBytes, dirty |-> dirty]
  /\ target' = "writer"
  /\ writes' = 1
  /\ dirty' = TRUE
  /\ UNCHANGED <<rs, lastBytes, fields, got, other>>

\* getBytes() and new ReadableStream(bytes) are LebFinish.
NextSwap == SwapRead \/ SwapWrite \/ LebFinish

SpecSwap == InitSwap /\ [][NextSwap]_vars

(***************************************************************************)
(* Half-precision conversions.  A run takes a 16-bit pattern, decodes it   *)
(* with reinterpretUint16AsFloat16 and encodes the value obtained with     *)
(* reinterpretFloat16AsUint16.                                             *)
(***************************************************************************)
HalfPatterns == 0..65535

InitHalf ==
  /\ target = "float16"
  /\ ws = NewWritableStream
  /\ rs = NewReadableStream(<<>>, 0, 0)
  /\ call = NoCall
  /\ writes = 0
  /\ lastBytes = NoBytes
  /\ dirty = FALSE
  /\ \E u16 \in HalfPatterns : fields = <<Field("Float16", 2, u16)>>
  /\ got = <<>>
  /\ other = NewReadableStream(<<>>, 0, 0)

HalfDecode ==
  /\ target = "float16"
  /\ got = <<>>
  /\ \E value \in {reinterpretUint16AsFloat16(fields[1].v)} :
       /\ got' = <<[skipped |-> FALSE, err |-> "none", v |-> value]>>
       /\ call' = [op |-> "reinterpretUint16AsFloat16", n |-> fields[1].v,
                   err |-> "none", value |-> <<>>, pre |-> <<>>, ret |-> value,
                   lastBytes |-> NoBytes, dirty |-> FALSE]
  /\ UNCHANGED <<target, ws, rs, writes, lastBytes, dirty, fields, other>>

HalfEncode ==
  /\ target = "float16"
  /\ got # <<>>
  /\ call.op = "reinterpretUint16AsFloat16"
  /\ call' = [op |-> "reinterpretFloat16AsUint16", n |-> 0, err |-> "none",
              value |-> got[1].v, pre |-> <<>>,
              ret |-> reinterpretFloat16AsUint16(got[1].v),
              lastBytes |-> NoBytes, dirty |-> FALSE]
  /\ UNCHANGED <<target, ws, rs, writes, lastBytes, dirty, fields, got, other>>

NextHalf == HalfDecode \/ HalfEncode

SpecHalf == InitHalf /\ [][NextHalf]_vars

(***************************************************************************)
(* Properties of the state machine.                                        *)
(***************************************************************************)
ReaderBitOps ==
  {"skipBits", "readSint16Bits", "readSint32Bits", "readUint16Bits", "readUint32Bits"}

WriterBitOps ==
  {"writeSint16Bits", "writeSint32Bits", "writeUint16Bits", "writeUint32Bits"}

IsPrefix(p, q) == Len(p) <= Len(q) /\ SubSeq(q, 1, Len(p)) = p

\* C3: after every reader call that returns, bytePos <= byteEnd (so
\* available() is not negative): a call that would move past byteEnd throws.
C3_ReaderStaysInBounds ==
  (target = "reader" /\ call.err = "none") =>
    (rs.bytePos <= rs.byteEnd /\ available(rs) >= 0)

\* C4: 0 <= bitPos < 8 in every state of a reader constructed with a bit
\* offset in 0..7 and of a writer constructed empty.
C4_BitPosInRange ==
  /\ ws.bitPos >= 0 /\ ws.bitPos < 8
  /\ rs.bitPos >= 0 /\ rs.bitPos < 8

C4_Witness ==
  /\ target = "writer"
  /\ call.op = "writeZerosBits"
  /\ call.pre.bitPos = 7
  /\ call.n = 1
  /\ ws.bitPos = 0

\* C5: a bit-level read or write of 33 bits or more throws BitOverflow; one
\* of 0..32 bits returns.
C5_BitOverflow ==
  call.op \in ReaderBitOps \cup WriterBitOps =>
    /\ call.n >= 33 => call.err = "BitOverflow"
    /\ call.n <= 32 => call.err = "none"

C5_Witness ==
  /\ call.op = "writeSint32Bits"
  /\ call.n = 33
  /\ call.err = "BitOverflow"
  /\ call.pre.bitPos # 0

\* C6: readUtf8(N) throws IncompleteStream exactly when N exceeds the bytes
\* from bytePos to the end of the buffer, readNulUtf8() exactly when no zero
\* byte lies at an index >= bytePos; otherwise both return when the bytes
\* they decode are well-formed UTF-8.
C6_Truncation ==
  /\ call.op = "readUtf8" =>
       LET p == call.pre
           short == call.n > Len(p.bytes) - p.bytePos
       IN /\ call.err = "IncompleteStream" <=> short
          /\ (~short /\ Utf8Decode(SubSeq(p.bytes, p.bytePos + 1, p.bytePos + call.n))
                          # Malformed) => call.err = "none"
  /\ call.op = "readNulUtf8" =>
       LET p == call.pre
           zeros == {i \in 1..Len(p.bytes) : i > p.bytePos /\ p.bytes[i] = 0}
       IN /\ call.err = "IncompleteStream" <=> zeros = {}
          /\ (zeros # {} /\ \A i \in 1..Len(p.bytes) : p.bytes[i] < 128)
               => call.err = "none"

C6_Witness ==
  /\ call.op = "readNulUtf8"
  /\ call.err = "IncompleteStream"
  /\ call.pre.bytePos > 0
  /\ call.pre.bytePos < Len(call.pre.bytes)
  /\ \E i \in 1..call.pre.bytePos : call.pre.bytes[i] = 0

\* C7: getBytes() called twice with no call in between returns the same
\* bytes, and a later getBytes() returns bytes that begin with the bytes
\* every earlier getBytes() returned.
C7_IdempotentFinalize ==
  (call.op = "getBytes" /\ call.lastBytes # NoBytes) =>
    /\ IsPrefix(call.lastBytes, call.ret)
    /\ ~call.dirty => call.ret = call.lastBytes

C7_Witness ==
  /\ call.op = "getBytes"
  /\ call.lastBytes # NoBytes
  /\ call.lastBytes # <<>>
  /\ call.dirty
  /\ Len(call.ret) > Len(call.lastBytes)

\* C8: getBytes() returns the completed bytes only and leaves bytePos, bitPos
\* and the pending bits as they were; an align() that follows it appends the
\* partial byte.
C8_GetBytesDoesNotFlush ==
  /\ call.op = "getBytes" =>
       /\ Len(call.ret) = call.pre.bytePos
       /\ ws.bytePos = call.pre.bytePos
       /\ ws.bitPos = call.pre.bitPos
       /\ ws.bitsBuffer = call.pre.bitsBuffer
  /\ (call.op = "align" /\ ~call.dirty /\ call.lastBytes # NoBytes
        /\ call.pre.bitPos # 0) =>
       getBytes(ws).ret = call.lastBytes \o <<call.pre.bitsBuffer>>

C8_Witness ==
  /\ call.op = "align"
  /\ ~call.dirty
  /\ call.lastBytes # NoBytes
  /\ call.pre.bitPos # 0
  /\ call.pre.bitsBuffer # 0
  /\ call.pre.bytePos > 0

\* C1: every field read back (not skipped) with the matching call and
\* width returns, without an exception, the value that was written, whatever
\* the fields before it and wherever it lies relative to the byte boundaries.
C1_BitFieldRoundTrip ==
  \A i \in 1..Len(got) :
    ~got[i].skipped => (got[i].err = "none" /\ got[i].v = fields[i].v)

\* A negative 32-bit field written after a 1-bit field (so it lies across
\* five bytes) was read back.
C1_Witness ==
  /\ Len(fields) = 2
  /\ Len(got) = 2
  /\ fields[1].n = 1
  /\ fields[2].kind = "Sint32"
  /\ fields[2].n = 32
  /\ WLess(fields[2].v, Wide(0))
  /\ ~got[1].skipped
  /\ ~got[2].skipped
  /\ got[2].v = fields[2].v

RECURSIVE SumWidths(_, _)
\* The sum of the widths of the first k fields.
SumWidths(fs, k) == IF k = 0 THEN 0 ELSE SumWidths(fs, k - 1) + fs[k].n

\* The bit position of a stream.
BitCursor(s) == 8 * s.bytePos + s.bitPos

FieldOps ==
  {"skipBits"} \cup {d \o k \o "Bits" : d \in {"read", "write"},
                                        k \in {"Uint32", "Uint16", "Sint32", "Sint16"}}

\* C9: a bit-level call of width n returns and moves the bit position
\* 8 * bytePos + bitPos of the stream forward by n, for the writer and the
\* reader; so the position is the sum of the widths so far, and when that sum
\* is a multiple of 8 the stream is byte-aligned with bytePos = sum / 8.
C9_BitCursorArithmetic ==
  LET s == IF target = "writer" THEN ws ELSE rs
      sum == SumWidths(fields, IF target = "writer" THEN Len(fields) ELSE Len(got))
  IN /\ call.op \in FieldOps =>
          (call.err = "none" /\ BitCursor(s) = BitCursor(call.pre) + call.n)
     /\ BitCursor(s) = sum
     /\ sum % 8 = 0 => (s.bitPos = 0 /\ s.bytePos = sum \div 8)

\* The reader is aligned again after skipping 7 bits and reading 9, and the
\* writer was aligned after writing them.
C9_Witness ==
  /\ target = "reader"
  /\ Len(got) = 2
  /\ fields[1].n = 7
  /\ fields[2].n = 9
  /\ got[1].skipped
  /\ ~got[2].skipped
  /\ rs.bitPos = 0
  /\ rs.bytePos = 2
  /\ ws.bytePos = 2

\* C2: readUint32Leb128 on a reader over the bytes writeUint32Leb128(v)
\* produced returns v, and leaves the reader at the end of the buffer:
\* bytePos is the number of bytes written and available() is 0.
C2_Leb128RoundTrip ==
  got # <<>> =>
    /\ got[1].err = "none"
    /\ got[1].v = fields[1]
    /\ rs.bytePos = Len(lastBytes)
    /\ rs.bytePos = ws.bytePos
    /\ available(rs) = 0

\* 2^32 - 1 was written as ff ff ff ff 0f and read back.
C2_Witness ==
  /\ got # <<>>
  /\ fields[1] = <<65535, 65535>>
  /\ lastBytes = <<255, 255, 255, 255, 15>>
  /\ got[1].v = <<65535, 65535>>
  /\ rs.bytePos = 5

\* The bytes of a reader from its cursor to its end.
Remaining(s) == s.byteEnd - s.bytePos

\* Byte i (from 0) after the cursor of a reader.
RemainingByte(s, i) == s.bytes[s.bytePos + i + 1]

\* C10: equals(a, b) is TRUE exactly when a and b have the same bitPos, the
\* same number of remaining bytes, and the same remaining bytes, the first of
\* them compared on its low 8 - bitPos bits only when bitPos # 0; the bytes
\* before the cursors and the values of bytePos play no part.
C10_ReaderEquality ==
  call.op = "equals" =>
    LET a == call.pre
        b == call.value
    IN call.ret =
         (/\ a.bitPos = b.bitPos
          /\ Remaining(a) = Remaining(b)
          /\ \A i \in 0..(Remaining(a) - 1) :
               IF i = 0 /\ a.bitPos # 0
               THEN RemainingByte(a, 0) % (2 ^ (8 - a.bitPos))
                      = RemainingByte(b, 0) % (2 ^ (8 - a.bitPos))
               ELSE RemainingByte(a, i) = RemainingByte(b, i))

\* Two readers at different offsets, with a bit offset, whose last bytes
\* differ in the consumed bits only (and whose consumed bytes differ), compare
\* equal.
C10_Witness ==
  /\ call.op = "equals"
  /\ call.ret
  /\ call.pre.bitPos = 3
  /\ call.pre.bytePos # call.value.bytePos
  /\ Remaining(call.pre) = 1
  /\ RemainingByte(call.pre, 0) # RemainingByte(call.value, 0)
  /\ call.pre.bytes[1] # call.value.bytes[1]

\* C11: readX() on a reader over the bytes writeX(v) produced returns v, for
\* each byte-aligned integer type X and v in its range, and the writer and
\* the reader both moved bytePos from 0 to the width of X in bytes.
C11_FixedWidthRoundTrip ==
  /\ (target = "writer" /\ writes = 1) => ws.bytePos = fields[1].n
  /\ got # <<>> =>
       /\ got[1].err = "none"
       /\ got[1].v = fields[1].v
       /\ ws.bytePos = fields[1].n
       /\ Len(lastBytes) = fields[1].n
       /\ call.pre.bytePos = 0
       /\ rs.bytePos = fields[1].n

\* -2^15 was written with writeSint16LE as 00 80 and read back.
C11_Witness ==
  /\ got # <<>>
  /\ fields[1].kind = "Sint16LE"
  /\ fields[1].v = Wide(0 - 32768)
  /\ lastBytes = <<0, 128>>
  /\ got[1].v = Wide(0 - 32768)
  /\ rs.bytePos = 2

\* The 16-bit patterns of the NaNs: exponent field 31, fraction not 0.
IsNaNPattern(u16) == (u16 \div 1024) % 32 = 31 /\ u16 % 1024 # 0

\* C12: a pattern that is not a NaN decodes to a value that encodes to the
\* same pattern; a NaN pattern decodes to NaN, and NaN encodes to 0xFFFF.
C12_HalfRoundTrip ==
  LET u16 == fields[1].v
  IN /\ got # <<>> => (got[1].v.kind = "nan" <=> IsNaNPattern(u16))
     /\ call.op = "reinterpretFloat16AsUint16" =>
          call.ret = (IF IsNaNPattern(u16) THEN 65535 ELSE u16)

\* -0 (0x8000) was decoded to a negative zero and encoded back.
C12_Witness ==
  /\ call.op = "reinterpretFloat16AsUint16"
  /\ fields[1].v = 32768
  /\ call.value = Float("finite", TRUE, Wide(0))
  /\ call.ret = 32768

\* The largest finite value 65504 (0x7BFF) was decoded and encoded back.
C12_WitnessLargest ==
  /\ call.op = "reinterpretFloat16AsUint16"
  /\ fields[1].v = 31743
  /\ call.value = Float("finite", FALSE, WMulPow2(Wide(2047), 29))
  /\ call.ret = 31743
\* C13: readFloat64LE32 over b0..b7 returns what readFloat64LE returns over
\* b4..b7, b0..b3 and advances bytePos by 8; writeFloat64LE32(v) stores the
\* bytes of writeFloat64LE(v) with the two halves exchanged; reading what
\* writeFloat64LE32(v) stored gives v again, from the same eight bytes.
C13_WordSwappedDouble ==
  /\ (call.op = "readFloat64LE32" /\ call.err = "none") =>
       /\ call.ret = readFloat64LE(
                       NewReadableStream(SwapHalves(call.pre.bytes), 0, 0)).ret
       /\ rs.bytePos = call.pre.bytePos + 8
  /\ call.op = "writeFloat64LE32" =>
       /\ getBytes(ws).ret
            = SwapHalves(getBytes(writeFloat64LE(call.pre, call.value)).ret)
       /\ ws.bytePos = call.pre.bytePos + 8
  /\ Len(got) = 2 =>
       /\ got[2].err = "none"
       /\ got[2].v = got[1].v
       /\ got[1].v # NaN => lastBytes = fields[1].v

C13_Witness ==
  /\ Len(got) = 2
  /\ fields[1].v = <<1, 2, 3, 4, 5, 6, 7, 8>>
  /\ got[1].v = Double(<<4, 3, 2, 1, 8, 7, 6, 5>>)
  /\ lastBytes = <<1, 2, 3, 4, 5, 6, 7, 8>>
  /\ got[2].v = got[1].v
  /\ rs.bytePos = 8

RECURSIVE ChunksLength(_)
\* The total length of a sequence of chunks.
ChunksLength(chunks) ==
  IF chunks = <<>> THEN 0 ELSE Len(Head(chunks)) + ChunksLength(Tail(chunks))

\* C14: in every state of a writer, bytePos is the total length of the chunks
\* stored, which is the length of the array getBytes() returns.
C14_CursorStorageSync ==
  target = "writer" =>
    /\ ws.bytePos = ChunksLength(ws.chunks)
    /\ ws.bytePos = Len(getBytes(ws).ret)

C14_Witness ==
  /\ target = "writer"
  /\ call.op = "writeZerosBits"
  /\ call.n = 11
  /\ call.pre.bitPos = 5
  /\ ws.bytePos = 2
  /\ ws.chunks = <<<<0>>, <<0>>>>

\* C15: no call of a reader or writer method with non-negative arguments,
\* failing calls included, leaves bytePos smaller than it was before the call.
C15_BytePosMonotonic ==
  call.op # "new" =>
    IF target = "writer"
    THEN ws.bytePos >= call.pre.bytePos
    ELSE rs.bytePos >= call.pre.bytePos

\* bytePos never decreases in a call on a reader whose cursor is within the
\* buffer, nor in a call on a writer.
BytePosMonotonicInBounds ==
  call.op # "new" =>
    IF target = "writer"
    THEN ws.bytePos >= call.pre.bytePos
    ELSE call.pre.bytePos <= call.pre.byteEnd => rs.bytePos >= call.pre.bytePos

\* Binary digit j of a wide number in 0 .. 2^32 - 1.
BitOf(v, j) ==
  IF j < 16 THEN (v[2] \div (2 ^ j)) % 2
  ELSE IF j < 32 THEN (v[1] \div (2 ^ (j - 16))) % 2
  ELSE 0

\* Bits 7i .. 7i+6 of v as a number.
GroupOf(v, i) ==
  BitOf(v, 7 * i) + 2 * BitOf(v, 7 * i + 1) + 4 * BitOf(v, 7 * i + 2)
    + 8 * BitOf(v, 7 * i + 3) + 16 * BitOf(v, 7 * i + 4)
    + 32 * BitOf(v, 7 * i + 5) + 64 * BitOf(v, 7 * i + 6)

\* The least number of 7-bit groups that hold v, one for 0.
GroupCount(v) ==
  CHOOSE n \in 1..5 :
    /\ \A i \in n..4 : GroupOf(v, i) = 0
    /\ n > 1 => GroupOf(v, n - 1) # 0

\* C16: writeUint32Leb128(v) appends the least number of 7-bit groups that
\* hold v, between 1 and 5 bytes (the single byte 0 for 0); byte i holds bits
\* 7i .. 7i+6 of v in its low seven bits, bit 7 is set on every byte but the
\* last, bytePos advances by the number of bytes, and 2^32 - 1 is written as
\* ff ff ff ff 0f.
C16_Leb128Shape ==
  call.op = "writeUint32Leb128" =>
    LET v == call.value
        chunk == ws.chunks[Len(ws.chunks)]
    IN /\ Len(ws.chunks) = Len(call.pre.chunks) + 1
       /\ Len(chunk) \in 1..5
       /\ Len(chunk) = GroupCount(v)
       /\ \A i \in 0..(Len(chunk) - 1) :
            /\ chunk[i + 1] % 128 = GroupOf(v, i)
            /\ chunk[i + 1] >= 128 <=> i < Len(chunk) - 1
            /\ chunk[i + 1] \in 0..255
       /\ ws.bytePos = call.pre.bytePos + Len(chunk)
       /\ v = Wide(0) => chunk = <<0>>
       /\ v = <<65535, 65535>> => chunk = <<255, 255, 255, 255, 15>>

C16_Witness ==
  /\ call.op = "writeUint32Leb128"
  /\ call.value = <<65535, 65535>>
  /\ ws.chunks = <<<<255, 255, 255, 255, 15>>>>
  /\ ws.bytePos = 5

\* 2^14 is written as the three bytes 80 80 01.
C16_WitnessZeroGroups ==
  /\ call.op = "writeUint32Leb128"
  /\ call.value = Pow2(14)
  /\ ws.chunks = <<<<128, 128, 1>>>>
  /\ ws.bytePos = 3

\* The bytes take(n) or takeBytes(n) returned in the last call.
TakenBytes == IF call.op = "take" THEN call.ret.bytes ELSE call.ret

\* The last call was take(n) or takeBytes(n), and it returned the n bytes at
\* the cursor and advanced the cursor by n.
TookNextBytes ==
  /\ Len(TakenBytes) = call.n
  /\ call.op = "take" => available(call.ret) = call.n /\ call.ret.bytePos = 0
  /\ \A i \in 1..call.n : TakenBytes[i] = call.pre.bytes[call.pre.bytePos + i]
  /\ rs.bytePos = call.pre.bytePos + call.n

\* C17: take(n) and takeBytes(n), for every reader state and n >= 0, return
\* exactly the next n bytes (length and available() are n, the content is
\* bytes bytePos .. bytePos + n - 1 of the parent) and advance the parent's
\* bytePos by n.
C17_TakeCoversNextBytes ==
  call.op \in {"take", "takeBytes"} => TookNextBytes

\* take(n) and takeBytes(n) with n bytes available at the cursor return the
\* next n bytes and advance the cursor by n.
TakeWithinBuffer ==
  (call.op \in {"take", "takeBytes"}
     /\ call.pre.bytePos + call.n <= call.pre.byteEnd) => TookNextBytes

\* C18: a readNulUtf8() that returns has found the first zero byte at an
\* index z >= bytePos, returns the decoding of the bytes bytePos .. z - 1 (the
\* bytes themselves when they are ASCII) and sets bytePos to z + 1.
C18_NulStringExtent ==
  (call.op = "readNulUtf8" /\ call.err = "none") =>
    LET p == call.pre
        z == rs.bytePos - 1
        slice == [i \in 1..(z - p.bytePos) |-> p.bytes[p.bytePos + i]]
    IN /\ z >= p.bytePos
       /\ z < Len(p.bytes)
       /\ p.bytes[z + 1] = 0
       /\ \A i \in 1..Len(slice) : slice[i] # 0
       /\ call.ret = Utf8Decode(slice)
       /\ (\A i \in 1..Len(slice) : slice[i] < 128) => call.ret = slice

\* U+00E9 is read from c3 a9 00.
C18_Witness ==
  /\ call.op = "readNulUtf8"
  /\ call.err = "none"
  /\ call.pre.bytes = <<195, 169, 0>>
  /\ call.pre.bytePos = 0
  /\ call.ret = <<233>>
  /\ rs.bytePos = 3

\* A zero byte before the cursor is not the end of the string.
C18_WitnessAfterNul ==
  /\ call.op = "readNulUtf8"
  /\ call.err = "none"
  /\ call.pre.bytes = <<0, 65>> \o <<0>> \/ call.pre.bytes = <<0, 0>>
  /\ call.pre.bytePos = 1
  /\ rs.bytePos = Len(call.pre.bytes)

\* What a caller can observe of a writer: the bytes getBytes() returns, the
\* two cursors and the pending bits.
Observable(s) ==
  [bytes |-> getBytes(s).ret, bytePos |-> s.bytePos, bitPos |-> s.bitPos,
   bitsBuffer |-> s.bitsBuffer]

\* The writer after n calls of writeBoolBits(false).
ZeroBitWrites(s, n) ==
  LET after[i \in 0..n] ==
        IF i = 0 THEN s
        ELSE CHOOSE t \in {writeBoolBits(p, FALSE).s : p \in {after[i - 1]}} : TRUE
  IN after[n]

\* C19: writeZerosBits(n), for every writer state and n >= 0, leaves the bytes
\* of getBytes(), bytePos, bitPos and the pending bits as n calls of
\* writeBoolBits(false) from the same state leave them.
C19_ZerosBitsEquivalence ==
  call.op = "writeZerosBits" =>
    Observable(ws) = Observable(ZeroBitWrites(call.pre, call.n))

\* 35 zero bits after one bit 1: 80 00 00 00 and four bits pending.
C19_Witness ==
  /\ call.op = "writeZerosBits"
  /\ call.n = 35
  /\ call.pre.bitPos = 1
  /\ call.pre.bitsBuffer = 128
  /\ getBytes(ws).ret = <<128, 0, 0, 0>>
  /\ ws.bytePos = 4
  /\ ws.bitPos = 4
  /\ ws.bitsBuffer = 0

\* Bit k of a buffer, the most significant bit of byte 0 being bit 0.
BufferBit(bytes, k) == (bytes[(k \div 8) + 1] \div (2 ^ (7 - (k % 8)))) % 2

\* The number whose n binary digits are bits p .. p + n - 1 of the buffer,
\* as a wide number (n <= 32).
BitsValue(bytes, p, n) ==
  LET weight(j) == n - 1 - j
      high[i \in 0..n] ==
        IF i = 0 THEN 0
        ELSE high[i - 1] + (IF weight(i - 1) >= 16
                            THEN BufferBit(bytes, p + i - 1) * (2 ^ (weight(i - 1) - 16))
                            ELSE 0)
      low[i \in 0..n] ==
        IF i = 0 THEN 0
        ELSE low[i - 1] + (IF weight(i - 1) < 16
                           THEN BufferBit(bytes, p + i - 1) * (2 ^ weight(i - 1))
                           ELSE 0)
  IN <<high[n], low[n]>>

\* C20: readUintBits(n), 0 <= n <= 32, on a reader that holds n more bits,
\* returns the number whose binary digits are the n bits from bit position
\* p = 8 * bytePos + bitPos on, most significant first; the bits before p do
\* not count, and n = 0 returns 0.
C20_UintBitsValue ==
  LET s == call.pre
      p == 8 * s.bytePos + s.bitPos
  IN (/\ call.op \in {"readUint32Bits", "readUint16Bits"}
      /\ call.n <= 32
      /\ p + call.n <= 8 * s.byteEnd) =>
       /\ call.err = "none"
       /\ call.ret = BitsValue(s.bytes, p, call.n)
       /\ call.n = 0 => call.ret = Wide(0)

\* 32 bits from bit 3 of 89 ab cd ef 01 are 4d5e6f78.
C20_Witness ==
  /\ call.op = "readUint32Bits"
  /\ call.n = 32
  /\ call.pre.bytes = <<137, 171, 205, 239, 1>>
  /\ call.pre.bytePos = 0
  /\ call.pre.bitPos = 3
  /\ call.ret = <<19806, 28536>>
  /\ rs.bytePos = 4
  /\ rs.bitPos = 3

\* The bits a writer holds: those of its completed bytes, then its bitPos
\* pending bits.
BitString(s) ==
  LET bytes == Flatten(s.chunks)
      done == 8 * Len(bytes)
  IN [k \in 1..(done + s.bitPos) |->
        IF k <= done THEN BufferBit(bytes, k - 1)
        ELSE (s.bitsBuffer \div (2 ^ (7 - (k - 1 - done)))) % 2]

\* The n low binary digits of a wide number, most significant first (the
\* digits of its two's complement when it is negative).
BitsOf(v, n) == [i \in 1..n |-> BitOf(v, n - i)]

\* The writer methods that pass their arguments to writeUintBits or
\* writeSintBits.
BitWrites ==
  {"writeBoolBits", "writeUint16Bits", "writeUint32Bits", "writeSint16Bits",
   "writeSint32Bits"}

\* C21: a bit write of n <= 32 bits appends the n low bits of the value, most
\* significant first, to the bits the writer holds and leaves the earlier
\* bits as they were; one byte is stored each time the pending bits reach
\* eight, and the pending bits beyond bitPos are 0.
C21_UintBitsLayout ==
  (call.op \in BitWrites /\ call.n <= 32) =>
    /\ call.err = "none"
    /\ BitString(ws) = BitString(call.pre) \o BitsOf(call.value, call.n)
    /\ Len(ws.chunks) = Len(call.pre.chunks) + ((call.pre.bitPos + call.n) \div 8)
    /\ ws.bitPos = (call.pre.bitPos + call.n) % 8
    /\ ws.bitsBuffer % (2 ^ (8 - ws.bitPos)) = 0

\* Nine bits 101010101 after seven bits 1010101: the bytes ab 55.
C21_Witness ==
  /\ call.op = "writeUint32Bits"
  /\ call.n = 9
  /\ call.pre.bitPos = 7
  /\ call.pre.bitsBuffer = 170
  /\ ws.chunks = <<<<171>>, <<85>>>>
  /\ ws.bitPos = 0
  /\ ws.bitsBuffer = 0

\* C22: readSintBits(n), 1 <= n <= 32, returns u - 2^n when the n-bit
\* unsigned value u at the cursor is at least 2^(n-1) and u otherwise, a
\* number in -2^(n-1) .. 2^(n-1) - 1; readSintBits(0) returns 0 and leaves
\* bytePos and bitPos as they were.
C22_SintBitsTwosComplement ==
  call.op \in {"readSint16Bits", "readSint32Bits"} =>
    /\ (call.n >= 1 /\ call.n <= 32) =>
         LET u == readUintBits(call.pre, call.n)
             p == 8 * call.pre.bytePos + call.pre.bitPos
         IN /\ call.err = "none"
            /\ p + call.n <= 8 * call.pre.byteEnd =>
                 u.ret = BitsValue(call.pre.bytes, p, call.n)
            /\ call.ret = IF WLess(u.ret, Pow2(call.n - 1))
                          THEN u.ret
                          ELSE WAdd(u.ret, WNeg(Pow2(call.n)))
            /\ WLess(call.ret, Pow2(call.n - 1))
            /\ ~WLess(call.ret, WNeg(Pow2(call.n - 1)))
            /\ rs = u.s
    /\ call.n = 0 => call.ret = Wide(0) /\ rs = call.pre

\* The nine bits 100010011 of 89 ab are read as 275 - 512.
C22_Witness ==
  /\ call.op = "readSint32Bits"
  /\ call.n = 9
  /\ call.pre.bytes = <<137, 171, 205, 239, 1>>
  /\ call.pre.bytePos = 0
  /\ call.pre.bitPos = 0
  /\ call.ret = Wide(0 - 237)
  /\ rs.bytePos = 1
  /\ rs.bitPos = 1

\* readSintBits(0) in the middle of a byte.
C22_WitnessZero ==
  /\ call.op = "readSint32Bits"
  /\ call.n = 0
  /\ call.pre.bitPos = 3
  /\ call.ret = Wide(0)
  /\ rs = call.pre

\* C23: align() on a writer with pending bits stores one byte that holds
\* them in its high bitPos bits and zeros below, adds 1 to bytePos and sets
\* bitPos and the accumulator to 0; with bitPos = 0 it changes nothing, so a
\* second align() changes nothing, and asByteStream() does what align() does.
C23_WriterAlign ==
  (target = "writer" /\ call.op \in {"align", "asByteStream"}) =>
    /\ call.pre.bitPos # 0 =>
         /\ ws.chunks = Append(call.pre.chunks, <<call.pre.bitsBuffer>>)
         /\ call.pre.bitsBuffer \in 0..255
         /\ BitString(ws)
              = BitString(call.pre) \o [i \in 1..(8 - call.pre.bitPos) |-> 0]
         /\ ws.bytePos = call.pre.bytePos + 1
         /\ ws.bitPos = 0
         /\ ws.bitsBuffer = 0
    /\ call.pre.bitPos = 0 => ws = call.pre
    /\ WritableStream_align(ws) = ws
    /\ ws = WritableStream_align(call.pre)

\* align() after the seven bits 1010101 stores the byte aa.
C23_Witness ==
  /\ target = "writer"
  /\ call.op = "align"
  /\ call.pre.bitPos = 7
  /\ call.pre.bitsBuffer = 170
  /\ ws.chunks = <<<<170>>>>
  /\ ws.bytePos = 1
  /\ ws.bitPos = 0
  /\ ws.bitsBuffer = 0

\* asByteStream() with one bit pending.
C23_WitnessByteStream ==
  /\ target = "writer"
  /\ call.op = "asByteStream"
  /\ call.pre.bitPos = 1
  /\ call.pre.bitsBuffer = 128
  /\ ws.chunks = <<<<128>>>>
  /\ ws.bitPos = 0

\* Byte i after the cursor of a reader, 0 where the buffer has ended (the
\* value the bit operators give to a missing element).
LebByte(s, i) ==
  IF s.bytePos + i < Len(s.bytes) THEN s.bytes[s.bytePos + i + 1] ELSE 0

\* The number of bytes readUint32Leb128 is to consume: up to and including
\* the first one with bit 7 clear, five at most.
LebLength(s) ==
  IF \E i \in 0..4 : LebByte(s, i) < 128
  THEN 1 + CHOOSE i \in 0..4 :
             /\ LebByte(s, i) < 128
             /\ \A j \in 0..(i - 1) : LebByte(s, j) >= 128
  ELSE 5

\* The value of the first k bytes: seven bits each at weights 2^0, 2^7,
\* 2^14, 2^21, and the four low bits of the fifth at weight 2^28.
LebValue(s, k) ==
  LET term(i) == IF i >= k THEN Wide(0)
                 ELSE IF i < 4 THEN WMulPow2(Wide(LebByte(s, i) % 128), 7 * i)
                 ELSE WMulPow2(Wide(LebByte(s, i) % 16), 28)
  IN WAdd(WAdd(WAdd(WAdd(term(0), term(1)), term(2)), term(3)), term(4))

\* C24: readUint32Leb128 consumes the bytes up to and including the first
\* one whose bit 7 is clear, five at most; the first four give their low
\* seven bits at weights 2^0, 2^7, 2^14 and 2^21, the fifth its low four bits
\* at weight 2^28 whatever its bit 7; the result is in 0 .. 2^32 - 1 and
\* bytePos advances by the number of bytes consumed.
C24_Leb128Decoding ==
  call.op = "readUint32Leb128" =>
    LET k == LebLength(call.pre)
    IN /\ call.err = "none"
       /\ k \in 1..5
       /\ rs.bytePos = call.pre.bytePos + k
       /\ call.ret = LebValue(call.pre, k)
       /\ ~WLess(call.ret, Wide(0))
       /\ WLess(call.ret, Pow2(32))
       /\ rs.bitPos = call.pre.bitPos

\* Five bytes ff: the fifth gives 15 * 2^28 and ends the number, the sixth
\* byte is left.
C24_Witness ==
  /\ call.op = "readUint32Leb128"
  /\ call.pre.bytes = <<255, 255, 255, 255, 255, 1>>
  /\ call.pre.bytePos = 0
  /\ call.ret = <<65535, 65535>>
  /\ rs.bytePos = 5

\* 80 80 01 read after one byte skipped: 2^14.
C24_WitnessMiddle ==
  /\ call.op = "readUint32Leb128"
  /\ call.pre.bytes = <<255, 128, 128, 1, 255>>
  /\ call.pre.bytePos = 1
  /\ call.ret = Pow2(14)
  /\ rs.bytePos = 4

\* The bits of getBytes() after a final align().
OutputBits(s) == BitString(WritableStream_align(s))

\* The writer methods that do not store whole bytes at once.
BitLevelOps ==
  BitWrites \cup {"writeZerosBits", "align", "asByteStream", "asBitStream", "getBytes"}

\* C25: whatever the order of bit writes and byte writes on a writer, the
\* output after a final align() holds the data in call order: the bits held
\* before a call, pending bits included, come first in the output after it.
C25_OutputInCallOrder ==
  (target = "writer" /\ call.op # "new") =>
    IsPrefix(BitString(call.pre), OutputBits(ws))

\* The bits held before a call come first in the output after it when the
\* call is a bit-level one or no bits are pending.
OutputInCallOrderWhenAligned ==
  (target = "writer" /\ call.op # "new"
     /\ (call.op \in BitLevelOps \/ call.pre.bitPos = 0)) =>
    IsPrefix(BitString(call.pre), OutputBits(ws))

\* The last call was tail(): the reader returned equals the source as it
\* was before the call, with its bit offset and its remaining bytes, and the
\* source is at its end with bitPos 0.
TailPreservesView ==
  /\ call.err = "none"
  /\ equals(call.ret, call.pre)
  /\ call.ret.bitPos = call.pre.bitPos
  /\ call.ret.bytes
       = [i \in 1..Remaining(call.pre) |-> RemainingByte(call.pre, i - 1)]
  /\ rs.bytePos = rs.byteEnd
  /\ rs.bitPos = 0

\* C26: tail() on a reader with bitPos = k in 0 .. 7 returns a reader equal
\* (ReadableStream.equals) to the source as it was before the call, with bit
\* offset k and the remaining bytes, and leaves the source at bytePos =
\* byteEnd with bitPos = 0.  Stated for a source with bytes remaining.
C26_TailPreservesView ==
  (target = "reader" /\ call.op = "tail"
     /\ call.pre.bytePos < call.pre.byteEnd) => TailPreservesView

\* tail() preserves the view of a reader that is at a byte boundary.
TailAtByteBoundary ==
  (target = "reader" /\ call.op = "tail" /\ call.pre.bitPos = 0
     /\ call.pre.bytePos <= call.pre.byteEnd) => TailPreservesView

\* C27: a call that fails with BitOverflow (a bit read or write of more
\* than 32 bits) or IncompleteStream (readUtf8, readNulUtf8) leaves the
\* stream as it was before the call: bytePos and bitPos, and for a writer
\* the chunks and the pending bits.
C27_FailedCallsChangeNothing ==
  call.err \in {"BitOverflow", "IncompleteStream"} =>
    /\ call.op \in BitWrites \cup {"readUint16Bits", "readUint32Bits",
                                  "readSint16Bits", "readSint32Bits", "skipBits",
                                  "readUtf8", "readNulUtf8"}
    /\ call.err = "BitOverflow" <=> call.n > 32 /\ call.op \notin {"readUtf8", "readNulUtf8"}
    /\ IF target = "writer" THEN ws = call.pre ELSE rs = call.pre

\* writeUint32Bits(33, v) on a writer holding one byte and one pending bit.
C27_Witness ==
  /\ target = "writer"
  /\ call.op = "writeUint32Bits"
  /\ call.n = 33
  /\ call.err = "BitOverflow"
  /\ call.pre.chunks = <<<<170>>>>
  /\ call.pre.bitPos = 1
  /\ call.pre.bitsBuffer = 128
  /\ ws = call.pre

\* readSint32Bits(33) in the middle of a byte.
C27_WitnessRead ==
  /\ target = "reader"
  /\ call.op = "readSint32Bits"
  /\ call.err = "BitOverflow"
  /\ call.pre.bitPos = 3
  /\ call.pre.bytePos = 1
  /\ rs = call.pre

\* readNulUtf8() with no zero byte left.
C27_WitnessString ==
  /\ target = "reader"
  /\ call.op = "readNulUtf8"
  /\ call.err = "IncompleteStream"
  /\ call.pre.bytePos = 1
  /\ call.pre.bytes = <<0, 65>>
  /\ rs = call.pre

====
